---- MODULE Spec2Model ----
(***************************************************************************)
(* video2md: the media -> transcript -> research -> markdown pipeline.     *)
(*                                                                         *)
(* Spec          the three entry points of the pipeline: the UI handler    *)
(*               on_run (one task per selected file behind a semaphore),   *)
(*               process_selected and main.run (one chain over a list).    *)
(* SpecBatch     whisper_client.batch_transcribe_media over a directory.   *)
(* SpecRegistry  downloaders.registry: detect_platform / get_downloader.   *)
(* SpecDownload  download_video_task and the downloaders' download().      *)
(* SpecSummarize summarize_host called on a list of SRT paths.             *)
(* SpecConvert   utils.transcript_converter: timestamps, SRT/VTT/TXT/JSON. *)
(* SpecDeps      utils.dependency_checker: validate_or_exit.               *)
(* SpecWhisper   whisper_host called on a list of files.                   *)
(* SpecLive      Spec with the fairness of the asyncio event loop.         *)
(* SpecUrl       on_url_download: the log queue between task and handler.  *)
(***************************************************************************)
EXTENDS Integers, Sequences, FiniteSets, TLC

VARIABLES
    \* ---- pipeline (ui/app.py on_run, process_selected; main.py run) ----
    entry,            \* which entry point was called
    selected,         \* the selected input files, in the order given
    hpc,              \* position of the on_run generator
    pc,               \* position of every chain (task)
    sem,              \* asyncio.Semaphore value (free slots)
    waiters,          \* asyncio.Semaphore FIFO of blocked tasks
    srts,             \* per chain: what whisper_host returned
    research_res,     \* per chain: results accumulated by research_host
    md_paths,         \* per chain: paths accumulated by summarize_host
    ret,              \* per chain: the task's outcome
    status_messages,  \* on_run: messages recorded by log_status
    trace_urls,       \* on_run: keys of the trace_urls dict, insertion order
    log,              \* on_run: the lines passed to step(), in order
    pending,          \* on_run: the set `tasks`
    doneSet,          \* on_run: the rest of `done` still to be iterated
    flush,            \* on_run: the rest of the slice being yielded
    completed,        \* on_run: completed counter
    summaries_created,\* on_run: markdown paths collected
    last_status_count,\* on_run: last_status_count
    srtFiles,         \* filesystem: stems s with output/s/s.srt present
    mdFiles,          \* filesystem: stem -> file whose summary is in s.md
    calls,            \* calls of each host made so far, per stage and file
    raised,           \* per chain: the stage that raised, if any
    \* ---- clients/whisper_client.py batch_transcribe_media ----
    batch_args,       \* output_dir, output_format, skip_existing
    media_files,      \* the sorted list of files found under input_dir
    other_files,      \* found files that are neither video nor audio
    bpc,              \* position of batch_transcribe_media
    idx,              \* loop index i (1-based) of the file handled next
    results,          \* the results dictionary being built
    outFiles,         \* filesystem: the output files present
    posted,           \* per file: requests sent to the server in this run
    run,              \* 1 for the first call, 2 for the repeated call
    first_results,    \* what the first call returned
    \* ---- downloaders/registry.py ----
    url,              \* the string handed to the registry, as characters
    is_file,          \* whether Path(url.strip()) is an existing file
    downloaders,      \* _downloaders: the platforms with an instance
    downloaders_initialized,
    detected,         \* what detect_platform(url) last returned
    prev_detected,    \* what the call before it returned for the same url
    got,              \* what get_downloader(url) last did
    \* ---- ui/components/input_section.py download_video_task ----
    caller,           \* who calls download(): download_video_task or a direct caller
    topic_name,       \* the topic name given, as characters
    backend,          \* what the download backend does for this url
    task_pc,          \* position of the caller
    temp_files,       \* files in the download directory
    input_files,      \* files in input/
    meta_files,       \* metadata files output/<topic>/<topic>.json
    dl_result,        \* what download() returned or raised
    task_ret,         \* what download_video_task returned
    task_log,         \* messages given to progress_callback
    probe,            \* a DownloadResult built by hand, and the last setattr on it
    \* ---- agents/summarize_host.py called on a list of SRT paths ----
    sum_srts,         \* the srts argument: parent directory and stem of each
    sum_media,        \* the directories that hold a media file of their stem
    sum_idx,          \* the position of the loop in srts
    output_paths,     \* the paths appended so far
    sum_written,      \* the markdown files written, in order
    sum_state,        \* running, returned, or the exception raised
    \* ---- utils/transcript_converter.py ----
    transcript,       \* the TranscriptResult handed to the converters
    conv_fn,          \* the converter called last
    conv_out,         \* what it returned, or the exception it raised
    conv_file,        \* what save_transcript wrote: path suffix and content
    ts_in,            \* the time handed to format_timestamp_*, in milliseconds
    ts_out,           \* the SRT and the VTT timestamp returned for it
    \* ---- utils/dependency_checker.py ----
    dep_args,         \* require_ffmpeg, require_node, exit_on_failure
    dep_env,          \* per command: what its version probe does
    dep_pc,           \* position of validate_or_exit
    probed,           \* the commands probed so far, in order
    messages,         \* check_all_dependencies: messages
    all_ok,           \* check_all_dependencies: all_ok
    dep_end,          \* how validate_or_exit ended
    \* ---- agents/whisper_host.py called on its own ----
    wh_files,         \* selected_files
    wh_oc,            \* per file: what its agent run does
    wh_startup,       \* whether whisper_host fails before the loop
    wh_before,        \* stems whose SRT is in place before the call
    wh_result,        \* what whisper_host returned, or that it raised
    \* ---- on_url_download (ui/app.py, ui/components/input_section.py) ----
    url_args,         \* whether topic and url are non-blank
    url_pc,           \* position of the on_url_download generator
    url_task,         \* position of process_task
    log_queue,        \* asyncio.Queue: the items not yet taken
    enqueued,         \* every item put on the queue so far, in order
    url_log           \* the lines given to step(), in order

pipeVars == <<entry, selected, hpc, pc, sem, waiters, srts, research_res,
              md_paths, ret, status_messages, trace_urls, log, pending,
              doneSet, flush, completed, summaries_created,
              last_status_count, srtFiles, mdFiles, calls, raised>>

batchVars == <<batch_args, media_files, other_files, bpc, idx, results,
               outFiles, posted, run, first_results>>

regVars == <<url, is_file, downloaders, downloaders_initialized, detected,
             prev_detected, got>>

dlVars == <<caller, topic_name, backend, task_pc, temp_files,
            input_files, meta_files, dl_result, task_ret, task_log, probe>>

sumVars == <<sum_srts, sum_media, sum_idx, output_paths, sum_written, sum_state>>

convVars == <<transcript, conv_fn, conv_out, conv_file, ts_in, ts_out>>

depVars == <<dep_args, dep_env, dep_pc, probed, messages, all_ok, dep_end>>

whVars == <<wh_files, wh_oc, wh_startup, wh_before, wh_result>>

urlVars == <<url_args, url_pc, url_task, log_queue, enqueued, url_log>>

vars == <<pipeVars, batchVars, regVars, dlVars, sumVars, convVars, depVars, whVars, urlVars>>

----------------------------------------------------------------------------
(* Bounds *)
MaxFiles == 3

(* Program constants *)
max_parallel == 2

Files == 1..MaxFiles

\* Path(media_file).stem: files 1 and 2 share a stem (a.mp3, a.mp4), 3 and 4
\* share the next one, and so on.
Stem(f) == (f + 1) \div 2

Stems == {Stem(f) : f \in Files}

None == 0

Entries == {"on_run", "process_selected", "run"}

\* keyword arguments accepted by the three hosts
whisper_host_params ==
    {"input_dir", "media_move_root", "model", "selected_files",
     "transcribe_method", "enable_trace"}
research_host_params == {"srts", "model", "prompt_variant", "user_notes"}
summarize_host_params == {"srts", "researcher_results", "model", "enable_trace"}

\* keyword arguments each caller passes to research_host
ResearchKwargs(e) ==
    CASE e = "on_run"           -> {"prompt_variant", "user_notes", "enable_trace"}
      [] e = "process_selected" -> {"prompt_variant", "user_notes"}
      [] OTHER                  -> {}

\* keyword arguments each caller passes to summarize_host
SummarizeKwargs(e) == IF e = "on_run" THEN {"enable_trace"} ELSE {}

\* Python raises TypeError at the call when a keyword is not a parameter
CallAccepted(kwargs, params) == kwargs \subseteq params

----------------------------------------------------------------------------
(* Helpers *)
Range(q) == {q[i] : i \in 1..Len(q)}

RECURSIVE Insert(_, _)
Insert(x, q) ==
    IF q = <<>> THEN <<x>>
    ELSE IF x <= Head(q) THEN <<x>> \o q
    ELSE <<Head(q)>> \o Insert(x, Tail(q))

\* sorted(media_files)
RECURSIVE Sorted(_)
Sorted(q) == IF q = <<>> THEN <<>> ELSE Insert(Head(q), Sorted(Tail(q)))

\* sequences of distinct files of length at most n
RECURSIVE Selections(_)
Selections(n) ==
    IF n = 0 THEN {<<>>}
    ELSE LET prev == Selections(n - 1)
         IN  prev \cup {Append(q, f) : q \in {p \in prev : Len(p) = n - 1},
                                        f \in Files} 

DistinctSelections == {q \in Selections(MaxFiles) : Cardinality(Range(q)) = Len(q)}

\* on_run starts one task per selected file; the other entry points run one
\* chain over the whole list
Chains == IF entry = "on_run" THEN 1..Len(selected) ELSE {1}
ChainFiles(c) == IF entry = "on_run" THEN <<selected[c]>> ELSE selected
AllChains == 1..MaxFiles

\* a line of the log: what step()/log_status() was given
Msg(kind, fname) == [kind |-> kind, fname |-> fname, k |-> 0]
Line(kind) == [kind |-> kind, fname |-> None, k |-> 0]
ResultLine(kind, k, fname) == [kind |-> kind, fname |-> fname, k |-> k]

----------------------------------------------------------------------------
(* agents/whisper_host.py *)

\* What the environment does with one media file during a whisper_host call:
\* "invalid"   the path is missing or has no media suffix (never run),
\* "ok"        the agent run returns,
\* "benign"    it raises 'Invalid structured content for tool move_file',
\* "move_file" it raises another error naming move_file,
\* "error"     it raises any other error;
\* wrote: the agent's tools wrote <media_move_root>/<stem>/<stem>.srt.
FileOutcomes ==
    {[kind |-> "invalid", wrote |-> FALSE]} \cup
    [kind : {"ok", "benign", "move_file", "error"}, wrote : BOOLEAN]

\* names bound at module level in whisper_host.py
whisper_host_globals ==
    {"AsyncExitStack", "Path", "List", "Optional", "Agent", "Runner", "trace",
     "MCPServerStdio", "prompts", "whisper_params", "openai_transcribe_params",
     "files_params", "logging", "whisper_host"}

\* the except clause of the per-file loop: TRUE when the handler itself raises
BenignBranchRaises == "logger" \notin whisper_host_globals

\* the loop over sorted(media_files): acc are the SRTs appended so far
RECURSIVE WhisperLoop(_, _, _, _)
WhisperLoop(files, oc, srt, acc) ==
    IF files = <<>>
    THEN [raised |-> FALSE, srts |-> acc, srt |-> srt]
    ELSE LET f      == Head(files)
             srt2   == IF oc[f].wrote THEN srt \cup {Stem(f)} ELSE srt
             exists == Stem(f) \in srt2
         IN  IF oc[f].kind = "benign" /\ BenignBranchRaises
             THEN [raised |-> TRUE, srts |-> <<>>, srt |-> srt2]
             ELSE IF oc[f].kind = "error" /\ ~exists
             THEN WhisperLoop(Tail(files), oc, srt2, acc)
             ELSE WhisperLoop(Tail(files), oc, srt2,
                              IF exists THEN Append(acc, f) ELSE acc)

\* whisper_host(selected_files=files): startup is a failure before the loop
\* (an MCP server that does not start, a missing input directory)
whisper_host(files, oc, startup, srt) ==
    LET valid_files == SelectSeq(files, LAMBDA f : oc[f].kind # "invalid")
    IN  IF startup
        THEN [raised |-> TRUE, srts |-> <<>>, srt |-> srt]
        ELSE IF valid_files = <<>>
        THEN [raised |-> FALSE, srts |-> <<>>, srt |-> srt]
        ELSE WhisperLoop(Sorted(valid_files), oc, srt, <<>>)

----------------------------------------------------------------------------
(* Initial state: an entry point has been called with a list of files *)

Stages == {"transcribe", "research", "summarize"}

InitPipeline ==
    /\ entry \in Entries
    /\ selected \in IF entry = "on_run"
                     THEN {q \in DistinctSelections : Sorted(q) = q}
                     ELSE DistinctSelections
    /\ hpc = IF entry = "on_run" THEN "start" ELSE "idle"
    /\ pc = [c \in AllChains |->
                IF entry # "on_run" /\ c = 1 THEN "transcribing" ELSE "none"]
    /\ sem = max_parallel
    /\ waiters = <<>>
    /\ srts = [c \in AllChains |-> <<>>]
    /\ research_res = [c \in AllChains |-> <<>>]
    /\ md_paths = [c \in AllChains |-> <<>>]
    /\ ret = [c \in AllChains |-> [state |-> "pending", md |-> None]]
    /\ status_messages = <<>>
    /\ trace_urls = <<>>
    /\ log = <<>>
    /\ pending = {}
    /\ doneSet = {}
    /\ flush = <<>>
    /\ completed = 0
    /\ summaries_created = <<>>
    /\ last_status_count = 0
    /\ srtFiles = {}
    /\ mdFiles = [s \in Stems |-> None]
    /\ calls = [st \in Stages |-> [f \in Files |->
                  IF st = "transcribe" /\ entry # "on_run" /\ f \in Range(selected)
                  THEN 1 ELSE 0]]
    /\ raised = [c \in AllChains |-> "none"]

------------------------------------------------------------\* the state of the pipeline while another subsystem is being run
IdlePipeline ==
    /\ entry = "none"
    /\ selected = <<>>
    /\ hpc = "idle"
    /\ pc = [c \in AllChains |-> "none"]
    /\ sem = max_parallel
    /\ waiters = <<>>
    /\ srts = [c \in AllChains |-> <<>>]
    /\ research_res = [c \in AllChains |-> <<>>]
    /\ md_paths = [c \in AllChains |-> <<>>]
    /\ ret = [c \in AllChains |-> [state |-> "pending", md |-> None]]
    /\ status_messages = <<>>
    /\ trace_urls = <<>>
    /\ log = <<>>
    /\ pending = {}
    /\ doneSet = {}
    /\ flush = <<>>
    /\ completed = 0
    /\ summaries_created = <<>>
    /\ last_status_count = 0
    /\ srtFiles = {}
    /\ mdFiles = [s \in Stems |-> None]
    /\ calls = [st \in Stages |-> [f \in Files |-> 0]]
    /\ raised = [c \in AllChains |-> "none"]

\* the state of the downloader registry while another subsystem is being run
IdleRegistry ==
    /\ url = <<>>
    /\ is_file = FALSE
    /\ downloaders = {}
    /\ downloaders_initialized = FALSE
    /\ detected = "unset"
    /\ prev_detected = "unset"
    /\ got = "unset"

\* the state of the download task while another subsystem is being run
IdleDownload ==
    /\ caller = "none"
    /\ topic_name = <<>>
    /\ backend = "none"
    /\ task_pc = "idle"
    /\ temp_files = {}
    /\ input_files = {}
    /\ meta_files = {}
    /\ dl_result = [state |-> "none"]
    /\ task_ret = [state |-> "none"]
    /\ task_log = <<>>
    /\ probe = [state |-> "none"]

\* the state of a summarize_host call while another subsystem is being run
IdleSummarize ==
    /\ sum_srts = <<>>
    /\ sum_media = {}
    /\ sum_idx = 1
    /\ output_paths = <<>>
    /\ sum_written = <<>>
    /\ sum_state = "idle"

\* the state of the converters while another subsystem is being run
IdleConvert ==
    /\ transcript = [language |-> <<>>, full_text |-> <<>>, segments |-> <<>>]
    /\ conv_fn = "none"
    /\ conv_out = [state |-> "none"]
    /\ conv_file = [state |-> "none"]
    /\ ts_in = 0
    /\ ts_out = [state |-> "none"]

\* the state of the dependency check while another subsystem is being run
IdleDeps ==
    /\ dep_args = [require_ffmpeg |-> FALSE, require_node |-> FALSE,
                   exit_on_failure |-> FALSE]
    /\ dep_env = [c \in {"ffmpeg", "node"} |-> "ok"]
    /\ dep_pc = "idle"
    /\ probed = <<>>
    /\ messages = <<>>
    /\ all_ok = TRUE
    /\ dep_end = "none"

\* the state of a lone whisper_host call while another subsystem is being run
IdleWhisper ==
    /\ wh_files = <<>>
    /\ wh_oc = [f \in Files |-> [kind |-> "invalid", wrote |-> FALSE]]
    /\ wh_startup = FALSE
    /\ wh_before = {}
    /\ wh_result = [state |-> "none"]

\* the state of on_url_download while another subsystem is being run
IdleUrl ==
    /\ url_args = [topic |-> FALSE, url |-> FALSE]
    /\ url_pc = "idle"
    /\ url_task = "none"
    /\ log_queue = <<>>
    /\ enqueued = <<>>
    /\ url_log = <<>>

----------------------------------------------------------------------------
(* How a chain step ends.  In on_run the chain runs inside `async with sem`  *)
(* and `try ... except Exception`; process_selected and run have neither.    *)

\* fname = Path(media_file).stem of an on_run task
Fname(c) == Stem(ChainFiles(c)[1])

Bump(stage, fs) ==
    [calls EXCEPT ![stage] = [f \in Files |->
        IF f \in fs THEN calls[stage][f] + 1 ELSE calls[stage][f]]]

\* the host a chain position is inside
StageOf(p) ==
    CASE p = "transcribing" -> "transcribe"
      [] p = "researching"  -> "research"
      [] p = "summarizing"  -> "summarize"

\* mutant: research is skipped, the transcript goes straight to summarize_host
StageAfterTranscribe_skip == "summarizing"

\* the chain is linear: whisper_host, then research_host, then summarize_host
StageAfterTranscribe == "researching"
StageAfterResearch == "summarizing"

\* mutant: the except clause does not match what the stages raise
CatchesException_no == FALSE

\* `except Exception as e` around the three stages of process_one_complete
CatchesException == TRUE

\* mutant: the task enters the chain without waiting for a slot
SemLocked_never == FALSE

\* Semaphore.locked(): no free slot, or tasks already queued for one
SemLocked == sem = 0 \/ waiters # <<>>

\* the chain goes on inside the host it is in
Continue(c, msgs) ==
    /\ status_messages' = status_messages \o msgs
    /\ UNCHANGED <<pc, sem, waiters, ret, calls, raised>>

\* the chain calls the next host with the transcripts fs and awaits it
Call(c, nextpc, fs, msgs) ==
    /\ pc' = [pc EXCEPT ![c] = nextpc]
    /\ calls' = Bump(StageOf(nextpc), fs)
    /\ status_messages' = status_messages \o msgs
    /\ UNCHANGED <<sem, waiters, ret, raised>>

\* mutant: the task ends without giving its slot back
Release_leak(c) ==
    /\ pc' = [pc EXCEPT ![c] = "done"]
    /\ UNCHANGED <<sem, waiters>>

\* Semaphore.release() on leaving `async with sem`: the slot goes to the
\* first waiter if there is one, else back to the semaphore
Release(c) ==
    IF waiters # <<>>
    THEN /\ waiters' = Tail(waiters)
         /\ sem' = sem
         /\ pc' = [pc EXCEPT ![c] = "done", ![Head(waiters)] = "granted"]
    ELSE /\ waiters' = waiters
         /\ sem' = sem + 1
         /\ pc' = [pc EXCEPT ![c] = "done"]

\* the chain is left, by a return or by an exception
Leave(c) ==
    IF entry = "on_run"
    THEN Release(c)
    ELSE /\ pc' = [pc EXCEPT ![c] = "done"]
         /\ UNCHANGED <<sem, waiters>>

\* the chain ends: `return fname, md_path, t.trace_id` in on_run, the
\* function's return in the other entry points
Return(c, msgs, md) ==
    /\ status_messages' = status_messages \o msgs
    /\ ret' = [ret EXCEPT ![c] = [state |-> "returned", md |-> md]]
    /\ Leave(c)
    /\ UNCHANGED <<calls, raised>>

\* a stage raises (msgs were logged before it): on_run logs the error and
\* returns no markdown; elsewhere the exception leaves the chain
Raise(c, stage, msgs, fname) ==
    /\ raised' = [raised EXCEPT ![c] = stage]
    /\ calls' = calls
    /\ Leave(c)
    /\ IF entry = "on_run" /\ CatchesException
       THEN /\ status_messages' =
                  status_messages \o msgs \o <<Msg("error", fname)>>
            /\ ret' = [ret EXCEPT ![c] = [state |-> "returned", md |-> None]]
       ELSE /\ status_messages' = status_messages \o msgs
            /\ ret' = [ret EXCEPT ![c] = [state |-> "raised", md |-> None]]

----------------------------------------------------------------------------
(* The chain: transcribe -> research -> summarize *)

handlerVars == <<hpc, log, pending, doneSet, flush, completed,
                 summaries_created, last_status_count>>

\* on_run: a created task runs up to its first suspension: it records its
\* trace URL and enters `async with sem`.  Tasks start in creation order.
TaskStart(c) ==
    /\ entry = "on_run"
    /\ c \in Chains
    /\ pc[c] = "created"
    /\ \A d \in Chains : d < c => pc[d] # "created"
    /\ trace_urls' = IF Fname(c) \in Range(trace_urls) THEN trace_urls
                     ELSE Append(trace_urls, Fname(c))
    /\ IF ~SemLocked
       THEN /\ sem' = sem - 1
            /\ waiters' = waiters
            /\ status_messages' =
                   Append(status_messages, Msg("start_transcription", Fname(c)))
            /\ calls' = Bump("transcribe", Range(ChainFiles(c)))
            /\ pc' = [pc EXCEPT ![c] = "transcribing"]
       ELSE /\ sem' = sem
            /\ waiters' = Append(waiters, c)
            /\ status_messages' = status_messages
            /\ calls' = calls
            /\ pc' = [pc EXCEPT ![c] = "waiting"]
    /\ UNCHANGED <<urlVars, whVars, depVars, convVars, batchVars, regVars, dlVars, sumVars, entry, selected, handlerVars, srts, research_res, md_paths,
                   ret, srtFiles, mdFiles, raised>>

\* on_run: a task that was handed a slot resumes and calls whisper_host
TaskResume(c) ==
    /\ entry = "on_run"
    /\ c \in Chains
    /\ pc[c] = "granted"
    /\ Call(c, "transcribing", Range(ChainFiles(c)),
            <<Msg("start_transcription", Fname(c))>>)
    /\ UNCHANGED <<urlVars, whVars, depVars, convVars, batchVars, regVars, dlVars, sumVars, entry, selected, handlerVars, srts, research_res, md_paths,
                   trace_urls, srtFiles, mdFiles>>

\* what follows `srts = await whisper_host(...)` up to the next await
AfterWhisper(c, r) ==
    IF r.raised THEN Raise(c, "transcribe", <<>>, Fname(c))
    ELSE IF entry = "on_run" THEN
        IF r.srts = <<>>
        THEN Return(c, <<Msg("transcription_failed", Fname(c))>>, None)
        ELSE LET msgs == <<Msg("transcription_completed", Fname(c)),
                           Msg("start_research", Fname(c))>>
             IN  IF CallAccepted(ResearchKwargs(entry), research_host_params)
                 THEN Call(c, StageAfterTranscribe, Range(r.srts), msgs)
                 ELSE Raise(c, "call", msgs, Fname(c))
    ELSE IF entry = "process_selected" THEN
        IF r.srts = <<>>
        THEN Return(c, <<>>, None)
        ELSE IF CallAccepted(ResearchKwargs(entry), research_host_params)
             THEN Call(c, StageAfterTranscribe, Range(r.srts), <<>>)
             ELSE Raise(c, "call", <<>>, None)
    ELSE \* main.run calls research_host and summarize_host whatever srts
         \* is; with no transcript both return an empty list at once
        IF r.srts = <<>>
        THEN Return(c, <<>>, None)
        ELSE IF CallAccepted(ResearchKwargs(entry), research_host_params)
             THEN Call(c, StageAfterTranscribe, Range(r.srts), <<>>)
             ELSE Raise(c, "call", <<>>, None)

\* whisper_host returns or raises
WhisperReturns(c) ==
    /\ c \in Chains
    /\ pc[c] = "transcribing"
    /\ \E startup \in BOOLEAN, oc \in [Range(ChainFiles(c)) -> FileOutcomes] :
          LET r == whisper_host(ChainFiles(c), oc, startup, srtFiles)
          IN  /\ srtFiles' = r.srt
              /\ srts' = [srts EXCEPT ![c] = r.srts]
              /\ AfterWhisper(c, r)
    /\ UNCHANGED <<urlVars, whVars, depVars, convVars, batchVars, regVars, dlVars, sumVars, entry, selected, handlerVars, research_res, md_paths,
                   trace_urls, mdFiles>>

\* what follows `research_res = await research_host(...)`
AfterResearch(c) ==
    LET msgs == IF entry = "on_run"
                THEN <<Msg("research_completed", Fname(c)),
                       Msg("start_summarization", Fname(c))>>
                ELSE <<>>
    IN  IF CallAccepted(SummarizeKwargs(entry), summarize_host_params)
        THEN Call(c, StageAfterResearch, Range(srts[c]), msgs)
        ELSE Raise(c, "call", msgs, Fname(c))

\* research_host: the agent run for the next transcript returns or raises
ResearchStep(c) ==
    /\ c \in Chains
    /\ pc[c] = "researching"
    /\ LET i == Len(research_res[c]) + 1
           f == srts[c][i]
       IN  \E ok \in BOOLEAN :
             IF ok
             THEN /\ research_res' = [research_res EXCEPT ![c] = Append(@, f)]
                  /\ IF i < Len(srts[c])
                     THEN Continue(c, <<>>)
                     ELSE AfterResearch(c)
             ELSE /\ research_res' = research_res
                  /\ Raise(c, "research", <<>>, Fname(c))
    /\ UNCHANGED <<urlVars, whVars, depVars, convVars, batchVars, regVars, dlVars, sumVars, entry, selected, handlerVars, srts, md_paths, trace_urls,
                   srtFiles, mdFiles>>

\* what follows `md_paths = await summarize_host(...)`; json: the metadata
\* file output/<fname>/<fname>.json exists and takes the trace id
AfterSummarize(c, paths, json) ==
    IF entry = "on_run"
    THEN LET md_path == IF paths # <<>> THEN paths[1] ELSE None
         IN  IF md_path # None
             THEN Return(c,
                     <<Msg("summarization_completed", Fname(c))>>
                     \o (IF json THEN <<Msg("saved_trace_id", Fname(c))>>
                         ELSE <<>>),
                     md_path)
             ELSE Return(c, <<Msg("no_output", Fname(c))>>, md_path)
    ELSE Return(c, <<>>, None)

\* summarize_host: the agent run for the next transcript returns (and the
\* markdown is written to output/<stem>/<stem>.md) or raises
SummarizeStep(c) ==
    /\ c \in Chains
    /\ pc[c] = "summarizing"
    /\ LET i == Len(md_paths[c]) + 1
           f == srts[c][i]
       IN  \E ok \in BOOLEAN, json \in BOOLEAN :
             IF ok
             THEN /\ mdFiles' = [mdFiles EXCEPT ![Stem(f)] = f]
                  /\ md_paths' = [md_paths EXCEPT ![c] = Append(@, Stem(f))]
                  /\ IF i < Len(srts[c])
                     THEN Continue(c, <<>>)
                     ELSE AfterSummarize(c, md_paths'[c], json)
             ELSE /\ mdFiles' = mdFiles
                  /\ md_paths' = md_paths
                  /\ Raise(c, "summarize", <<>>, Fname(c))
    /\ UNCHANGED <<urlVars, whVars, depVars, convVars, batchVars, regVars, dlVars, sumVars, entry, selected, handlerVars, srts, research_res,
                   trace_urls, srtFiles>>

----------------
(* The on_run generator: every action is the code between two suspension    *)
(* points (a yield or an await)                                             *)

chainVars == <<pc, sem, waiters, srts, research_res, md_paths, ret,
               status_messages, trace_urls, srtFiles, mdFiles, calls,
               raised>>

\* status_messages[last_status_count:]
NewMessages ==
    SubSeq(status_messages, last_status_count + 1, Len(status_messages))

\* mutant: the final line does not look at summaries_created
FinalLine_completed == Line("all_completed")

\* `if summaries_created:` after the loop
FinalLine ==
    IF summaries_created # <<>> THEN Line("all_completed")
    ELSE Line("no_markdown")

HandlerStart ==
    /\ hpc = "start"
    /\ IF selected = <<>>
       THEN /\ log' = Append(log, Line("no_input"))
            /\ hpc' = "end"
       ELSE /\ log' = Append(log, Line("start_processing"))
            /\ hpc' = "method"
    /\ UNCHANGED <<urlVars, whVars, depVars, convVars, batchVars, regVars, dlVars, sumVars, entry, selected, chainVars, pending, doneSet, flush,
                   completed, summaries_created, last_status_count>>

HandlerMethod ==
    /\ hpc = "method"
    /\ log' = Append(log, Line("transcription_method"))
    /\ hpc' = "pipelines"
    /\ UNCHANGED <<urlVars, whVars, depVars, convVars, batchVars, regVars, dlVars, sumVars, entry, selected, chainVars, pending, doneSet, flush,
                   completed, summaries_created, last_status_count>>

HandlerPipelines ==
    /\ hpc = "pipelines"
    /\ log' = Append(log, Line("starting_pipelines"))
    /\ hpc' = "launch"
    /\ UNCHANGED <<urlVars, whVars, depVars, convVars, batchVars, regVars, dlVars, sumVars, entry, selected, chainVars, pending, doneSet, flush,
                   completed, summaries_created, last_status_count>>

\* tasks = [asyncio.create_task(...) for f in selected]; await sleep(0.1)
HandlerLaunch ==
    /\ hpc = "launch"
    /\ pc' = [c \in AllChains |-> IF c \in Chains THEN "created" ELSE pc[c]]
    /\ pending' = Chains
    /\ hpc' = "sleep"
    /\ UNCHANGED <<urlVars, whVars, depVars, convVars, batchVars, regVars, dlVars, sumVars, entry, selected, sem, waiters, srts, research_res,
                   md_paths, ret, status_messages, trace_urls, srtFiles,
                   mdFiles, calls, raised, log, doneSet, flush,
                   completed, summaries_created, last_status_count>>

\* after the sleep every task has run to its first suspension; the trace
\* URLs are shown between two rules.  flush holds the lines still to yield.
HandlerTraceHeader ==
    /\ hpc = "sleep"
    /\ \A c \in Chains : pc[c] # "created"
    /\ IF trace_urls # <<>>
       THEN /\ log' = Append(log, Line("rule"))
            /\ flush' = [i \in 1..Len(trace_urls) |->
                            Msg("trace", trace_urls[i])] \o <<Line("rule")>>
            /\ hpc' = "trace"
       ELSE /\ UNCHANGED <<log, flush>>
            /\ hpc' = "loop"
    /\ UNCHANGED <<urlVars, whVars, depVars, convVars, batchVars, regVars, dlVars, sumVars, entry, selected, chainVars, pending, doneSet, completed,
                   summaries_created, last_status_count>>

HandlerTrace ==
    /\ hpc = "trace"
    /\ log' = Append(log, Head(flush))
    /\ flush' = Tail(flush)
    /\ hpc' = IF Tail(flush) = <<>> THEN "loop" ELSE "trace"
    /\ UNCHANGED <<urlVars, whVars, depVars, convVars, batchVars, regVars, dlVars, sumVars, entry, selected, chainVars, pending, doneSet, completed,
                   summaries_created, last_status_count>>

\* top of `while tasks:`; after the loop, the remaining messages and the
\* final line
HandlerLoop ==
    /\ hpc = "loop"
    /\ IF Len(status_messages) > last_status_count
       THEN /\ log' = Append(log, Head(NewMessages))
            /\ flush' = Tail(NewMessages)
            /\ hpc' = IF pending # {} THEN "flush" ELSE "final_flush"
       ELSE /\ flush' = flush
            /\ IF pending # {}
               THEN /\ log' = log
                    /\ hpc' = "wait"
               ELSE /\ log' = Append(log, FinalLine)
                    /\ hpc' = "end"
    /\ UNCHANGED <<urlVars, whVars, depVars, convVars, batchVars, regVars, dlVars, sumVars, entry, selected, chainVars, pending, doneSet, completed,
                   summaries_created, last_status_count>>

\* the rest of `for msg in status_messages[last_status_count:]`, then
\* last_status_count = len(status_messages) and asyncio.wait
HandlerFlush ==
    /\ hpc = "flush"
    /\ IF flush # <<>>
       THEN /\ log' = Append(log, Head(flush))
            /\ flush' = Tail(flush)
            /\ UNCHANGED <<hpc, last_status_count>>
       ELSE /\ last_status_count' = Len(status_messages)
            /\ hpc' = "wait"
            /\ UNCHANGED <<log, flush>>
    /\ UNCHANGED <<urlVars, whVars, depVars, convVars, batchVars, regVars, dlVars, sumVars, entry, selected, chainVars, pending, doneSet, completed,
                   summaries_created>>

\* one turn of `for task in done`: `await task` then the result line
Collect(t, rest) ==
    IF ret[t].state = "raised"
    THEN /\ log' = Append(log, Line("error_occurred"))
         /\ hpc' = "end"
         /\ doneSet' = rest
         /\ UNCHANGED <<completed, summaries_created>>
    ELSE /\ completed' = completed + 1
         /\ doneSet' = rest
         /\ hpc' = "collect"
         /\ IF ret[t].md # None
            THEN /\ summaries_created' = Append(summaries_created, ret[t].md)
                 /\ log' = Append(log,
                              ResultLine("Complete", completed + 1, Fname(t)))
            ELSE /\ summaries_created' = summaries_created
                 /\ log' = Append(log,
                              ResultLine("Failed", completed + 1, Fname(t)))

\* asyncio.wait(tasks, timeout=0.5, return_when=FIRST_COMPLETED) returns
\* the tasks that are done by then (none on a timeout)
HandlerWait ==
    /\ hpc = "wait"
    /\ LET done == {c \in pending : pc[c] = "done"}
       IN  /\ pending' = pending \ done
           /\ IF done = {}
              THEN /\ hpc' = "loop"
                   /\ UNCHANGED <<log, doneSet, completed, summaries_created>>
              ELSE \E t \in done : Collect(t, done \ {t})
    /\ UNCHANGED <<urlVars, whVars, depVars, convVars, batchVars, regVars, dlVars, sumVars, entry, selected, chainVars, flush, last_status_count>>

HandlerCollect ==
    /\ hpc = "collect"
    /\ IF doneSet = {}
       THEN /\ hpc' = "loop"
            /\ UNCHANGED <<log, doneSet, completed, summaries_created>>
       ELSE \E t \in doneSet : Collect(t, doneSet \ {t})
    /\ UNCHANGED <<urlVars, whVars, depVars, convVars, batchVars, regVars, dlVars, sumVars, entry, selected, chainVars, pending, flush,
                   last_status_count>>

\* the rest of the messages shown after the loop, then the final line
HandlerFinalFlush ==
    /\ hpc = "final_flush"
    /\ IF flush # <<>>
       THEN /\ log' = Append(log, Head(flush))
            /\ flush' = Tail(flush)
            /\ hpc' = hpc
       ELSE /\ log' = Append(log, FinalLine)
            /\ flush' = flush
            /\ hpc' = "end"
    /\ UNCHANGED <<urlVars, whVars, depVars, convVars, batchVars, regVars, dlVars, sumVars, entry, selected, chainVars, pending, doneSet, completed,
                   summaries_created, last_status_count>>

----------------------------------------------------------------------------
(* clients/whisper_client.py: batch_transcribe_media *)

\* output_dir as the caller gives it: "None" is Python's None, "" the empty
\* string, "out" a directory name
OutputDirs == {"None", "", "out"}

\* output_format as the caller gives it
Formats == {"srt", "SRT", "txt"}

\* str.lower() on an output format
Lower(fmt) == IF fmt = "SRT" THEN "srt" ELSE fmt

\* `if output_dir is None: output_dir = "whisper_output"`
DefaultedDir(d) == IF d = "None" THEN "whisper_output" ELSE d

\* Path(output_dir) / f"{stem}.{ext}"
OutPath(d, stem, ext) == [dir |-> d, stem |-> stem, ext |-> ext]

\* VideoConverter.is_video_file(f) or VideoConverter.is_audio_file(f)
IsMedia(f) == f \notin other_files

\* mutant: only the main output file is looked for
check_output_exists_main_only(f, output_dir, output_format) ==
    OutPath(output_dir, Stem(f), output_format) \in outFiles

check_output_exists(f, output_dir, output_format) ==
    IF OutPath(output_dir, Stem(f), output_format) \in outFiles
    THEN TRUE
    ELSE IF Lower(output_format) = "srt"
            /\ OutPath(output_dir, Stem(f), "txt") \in outFiles
    THEN TRUE
    ELSE FALSE

\* what transcribe_media(save_path=None, output_dir=..) writes after a 200
\* response: the result under output_dir when output_dir is truthy, and for
\* SRT the TXT version beside it unless that conversion fails (txt_ok)
TranscribeWrites(f, output_dir, output_format, txt_ok) ==
    IF output_dir # ""
    THEN {OutPath(output_dir, Stem(f), output_format)}
         \cup (IF Lower(output_format) = "srt" /\ txt_ok
               THEN {OutPath(output_dir, Stem(f), "txt")} ELSE {})
    ELSE {}

\* sorted(list(set(media_files)))
RECURSIVE SortedSeqOf(_)
SortedSeqOf(S) ==
    IF S = {} THEN <<>>
    ELSE LET m == CHOOSE x \in S : \A y \in S : x <= y
         IN  <<m>> \o SortedSeqOf(S \ {m})

EmptyResults == [processed |-> 0, skipped |-> 0, failed |-> 0, results |-> <<>>]

\* mutant: the except clause reports the file without counting it
RecordFailure_uncounted(res, f) ==
    [res EXCEPT !.results = Append(@,
        [file |-> f, status |-> "failed", reason |-> "error"])]

\* the `except Exception` clause of the loop body
RecordFailure(res, f) ==
    [res EXCEPT !.failed = @ + 1,
                !.results = Append(@,
                    [file |-> f, status |-> "failed", reason |-> "error"])]

\* the state of the batch client while another subsystem is being run
IdleBatch ==
    /\ batch_args = [output_dir |-> "None", output_format |-> "srt",
                     skip_existing |-> TRUE]
    /\ media_files = <<>>
    /\ other_files = {}
    /\ bpc = "idle"
    /\ idx = 1
    /\ results = EmptyResults
    /\ outFiles = {}
    /\ posted = [f \in Files |-> 0]
    /\ run = 1
    /\ first_results = EmptyResults

\* batch_transcribe_media has been called on a directory; an output of a
\* former session may already be there for the first stem
InitBatch ==
    /\ batch_args \in [output_dir : OutputDirs, output_format : Formats,
                       skip_existing : BOOLEAN]
    /\ \E found \in SUBSET Files :
          /\ media_files = SortedSeqOf(found)
          /\ other_files \in SUBSET found
    /\ bpc = "called"
    /\ idx = 1
    /\ results = EmptyResults
    /\ outFiles \in SUBSET
          {OutPath(DefaultedDir(batch_args.output_dir), 1, ext) :
              ext \in {batch_args.output_format, "txt"}}
    /\ posted = [f \in Files |-> 0]
    /\ run = 1
    /\ first_results = EmptyResults
    /\ IdlePipeline
    /\ IdleRegistry
    /\ IdleDownload
    /\ IdleSummarize
    /\ IdleConvert
    /\ IdleDeps
    /\ IdleWhisper
    /\ IdleUrl

\* the function up to the loop: no media file found returns at once
BatchEnter ==
    /\ bpc = "called"
    /\ results' = EmptyResults
    /\ idx' = 1
    /\ bpc' = IF media_files = <<>> THEN "returned" ELSE "loop"
    /\ UNCHANGED <<urlVars, whVars, depVars, convVars, pipeVars, regVars, dlVars, sumVars, batch_args, media_files, other_files, outFiles,
                   posted, run, first_results>>

\* one turn of `for i, media_file in enumerate(media_files, 1)`.
\* outcome: what transcribe_media does when it is called:
\*   "ok"       the server answers 200 and the result is saved,
\*   "rejected" the server is asked and the call raises,
\*   "unsent"   the call raises before the server is asked
BatchStep ==
    /\ bpc = "loop"
    /\ LET f   == media_files[idx]
           dir == DefaultedDir(batch_args.output_dir)
           fmt == batch_args.output_format
           nxt == IF idx = Len(media_files) THEN "returned" ELSE "loop"
       IN  /\ idx' = idx + 1
           /\ bpc' = nxt
           /\ IF ~IsMedia(f)
              THEN /\ results' = [results EXCEPT !.skipped = @ + 1]
                   /\ UNCHANGED <<outFiles, posted>>
              ELSE IF batch_args.skip_existing
                      /\ check_output_exists(f, dir, fmt)
              THEN /\ results' = [results EXCEPT
                         !.skipped = @ + 1,
                         !.results = Append(@,
                             [file |-> f, status |-> "skipped",
                              reason |-> "output_exists"])]
                   /\ UNCHANGED <<outFiles, posted>>
              ELSE \E outcome \in {"ok", "rejected", "unsent"},
                      txt_ok \in BOOLEAN :
                   /\ posted' = IF outcome = "unsent" THEN posted
                                ELSE [posted EXCEPT ![f] = @ + 1]
                   /\ IF outcome = "ok"
                      THEN /\ outFiles' = outFiles \cup
                                 TranscribeWrites(f, dir, fmt, txt_ok)
                           /\ results' = [results EXCEPT
                                 !.processed = @ + 1,
                                 !.results = Append(@,
                                     [file |-> f, status |-> "success",
                                      reason |-> "none"])]
                      ELSE /\ outFiles' = outFiles
                           /\ results' = RecordFailure(results, f)
    /\ UNCHANGED <<urlVars, whVars, depVars, convVars, pipeVars, regVars, dlVars, sumVars, batch_args, media_files, other_files, run,
                   first_results>>

\* the caller runs batch_transcribe_media again with the same arguments
BatchAgain ==
    /\ bpc = "returned"
    /\ run = 1
    /\ run' = 2
    /\ first_results' = results
    /\ results' = EmptyResults
    /\ posted' = [f \in Files |-> 0]
    /\ idx' = 1
    /\ bpc' = "called"
    /\ UNCHANGED <<urlVars, whVars, depVars, convVars, pipeVars, regVars, dlVars, sumVars, batch_args, media_files, other_files, outFiles>>

NextBatch ==
    \/ BatchEnter
    \/ BatchStep
    \/ BatchAgain

SpecBatch == InitBatch /\ [][NextBatch]_vars

----------------------------------------------------------------------------
(* downloaders/registry.py and the downloaders' supports() *)

\* A str is the sequence of its characters.
UpperCase == <<"A", "B", "C", "D", "E", "F", "G", "H", "I", "J", "K", "L", "M",
               "N", "O", "P", "Q", "R", "S", "T", "U", "V", "W", "X", "Y", "Z">>
LowerCase == <<"a", "b", "c", "d", "e", "f", "g", "h", "i", "j", "k", "l", "m",
               "n", "o", "p", "q", "r", "s", "t", "u", "v", "w", "x", "y", "z">>

IsUpper(ch) == \E i \in DOMAIN UpperCase : UpperCase[i] = ch
IsLetter(ch) == IsUpper(ch) \/ \E i \in DOMAIN LowerCase : LowerCase[i] = ch

\* case folding of re.IGNORECASE
LowerChar(ch) ==
    IF IsUpper(ch)
    THEN LowerCase[CHOOSE i \in DOMAIN UpperCase : UpperCase[i] = ch]
    ELSE ch

Whitespace == {" ", "\t", "\n"}

\* str.strip()
RECURSIVE LStrip(_)
LStrip(s) ==
    IF s # <<>> /\ Head(s) \in Whitespace THEN LStrip(Tail(s)) ELSE s
RECURSIVE RStrip(_)
RStrip(s) ==
    IF s # <<>> /\ s[Len(s)] \in Whitespace
    THEN RStrip(SubSeq(s, 1, Len(s) - 1)) ELSE s
Strip(s) == RStrip(LStrip(s))

\* a compiled pattern: its elements in order (a literal character, or the
\* class [A-Za-z]), whether it begins with ^, whether re.IGNORECASE is set
Re(elems, anchored, ignorecase) ==
    [elems |-> elems, anchored |-> anchored, ignorecase |-> ignorecase]

ElemMatches(e, ch, ignorecase) ==
    IF e = "[A-Za-z]" THEN IsLetter(ch)
    ELSE IF ignorecase THEN LowerChar(ch) = LowerChar(e)
    ELSE ch = e

\* the pattern matches s at position i
MatchAt(p, s, i) ==
    /\ i + Len(p.elems) - 1 <= Len(s)
    /\ \A k \in 1..Len(p.elems) :
          ElemMatches(p.elems[k], s[i + k - 1], p.ignorecase)

\* re.match(pattern, s)
Match(p, s) == MatchAt(p, s, 1)

\* pattern.search(s)
Search(p, s) ==
    IF p.anchored THEN MatchAt(p, s, 1)
    ELSE \E i \in 1..Len(s) : MatchAt(p, s, i)

\* `sub in s` for str
Contains(s, sub) == Search(Re(sub, FALSE, FALSE), s)

\* the literal texts of the patterns
s_bilibili_video ==
    <<"b", "i", "l", "i", "b", "i", "l", "i", ".", "c", "o", "m", "/", "v", "i", "d", "e", "o", "/">>
s_b23 ==
    <<"b", "2", "3", ".", "t", "v", "/">>
s_m_bilibili_video ==
    <<"m", ".", "b", "i", "l", "i", "b", "i", "l", "i", ".", "c", "o", "m", "/", "v", "i", "d", "e", "o", "/">>
s_youtube_watch ==
    <<"y", "o", "u", "t", "u", "b", "e", ".", "c", "o", "m", "/", "w", "a", "t", "c", "h">>
s_youtu_be ==
    <<"y", "o", "u", "t", "u", ".", "b", "e", "/">>
s_youtube_shorts ==
    <<"y", "o", "u", "t", "u", "b", "e", ".", "c", "o", "m", "/", "s", "h", "o", "r", "t", "s", "/">>
s_youtube_embed ==
    <<"y", "o", "u", "t", "u", "b", "e", ".", "c", "o", "m", "/", "e", "m", "b", "e", "d", "/">>
s_youtube_v ==
    <<"y", "o", "u", "t", "u", "b", "e", ".", "c", "o", "m", "/", "v", "/">>
s_douyin ==
    <<"d", "o", "u", "y", "i", "n", ".", "c", "o", "m">>
s_iesdouyin ==
    <<"i", "e", "s", "d", "o", "u", "y", "i", "n", ".", "c", "o", "m">>
s_tiktok ==
    <<"t", "i", "k", "t", "o", "k", ".", "c", "o", "m">>

Platforms == {"BILIBILI", "YOUTUBE", "DOUYIN", "TIKTOK", "LOCAL"}

\* Optional[Platform]: no platform
NoPlatform == "None"

\* the path patterns ^/  ^[A-Za-z]:\\  ^\./  ^\.\./
path_patterns ==
    << Re(<<"/">>, TRUE, FALSE),
       Re(<<"[A-Za-z]", ":", "\\">>, TRUE, FALSE),
       Re(<<".", "/">>, TRUE, FALSE),
       Re(<<".", ".", "/">>, TRUE, FALSE) >>

\* _PLATFORM_PATTERNS, in the order of the dict
PLATFORM_PATTERNS ==
    << [platform |-> "BILIBILI",
        patterns |-> << Re(s_bilibili_video, FALSE, TRUE),
                        Re(s_b23, FALSE, TRUE) >>],
       [platform |-> "YOUTUBE",
        patterns |-> << Re(s_youtube_watch, FALSE, TRUE),
                        Re(s_youtu_be, FALSE, TRUE),
                        Re(s_youtube_shorts, FALSE, TRUE) >>],
       [platform |-> "LOCAL",
        patterns |-> path_patterns] >>

\* any(pattern.search(s) for pattern in patterns)
AnySearch(patterns, s) == \E k \in DOMAIN patterns : Search(patterns[k], s)

\* the two for-loops of detect_platform over the items from position k on
RECURSIVE FirstPlatform(_, _)
FirstPlatform(k, s) ==
    IF k > Len(PLATFORM_PATTERNS) THEN NoPlatform
    ELSE IF AnySearch(PLATFORM_PATTERNS[k].patterns, s)
    THEN PLATFORM_PATTERNS[k].platform
    ELSE FirstPlatform(k + 1, s)

\* mutant: the string is matched as given, without strip()
detect_platform_unstripped(u) ==
    IF u = <<>> THEN NoPlatform ELSE FirstPlatform(1, u)

detect_platform(u) ==
    IF u = <<>> THEN NoPlatform ELSE FirstPlatform(1, Strip(u))

\* BilibiliDownloader._PATTERNS and YoutubeDownloader._PATTERNS
BilibiliPatterns ==
    << Re(s_bilibili_video, FALSE, TRUE),
       Re(s_b23, FALSE, TRUE),
       Re(s_m_bilibili_video, FALSE, TRUE) >>

YoutubePatterns ==
    << Re(s_youtube_watch, FALSE, TRUE),
       Re(s_youtu_be, FALSE, TRUE),
       Re(s_youtube_shorts, FALSE, TRUE),
       Re(s_youtube_embed, FALSE, TRUE),
       Re(s_youtube_v, FALSE, TRUE) >>

\* d.supports(u) of the downloader of platform p; exists is what
\* path.exists() and path.is_file() give for Path(u.strip())
supports(p, u, exists) ==
    CASE p = "BILIBILI" -> u # <<>> /\ AnySearch(BilibiliPatterns, u)
      [] p = "YOUTUBE"  -> u # <<>> /\ AnySearch(YoutubePatterns, u)
      [] p = "LOCAL"    ->
            /\ u # <<>>
            /\ IF \E k \in DOMAIN path_patterns : Match(path_patterns[k], Strip(u))
               THEN TRUE
               ELSE exists
      [] p = "DOUYIN"   -> Contains(u, s_douyin) \/ Contains(u, s_iesdouyin)
      [] p = "TIKTOK"   -> Contains(u, s_tiktok)

\* the downloaders _initialize_downloaders registers
Registered == {"BILIBILI", "YOUTUBE", "LOCAL"}

\* get_downloader after _initialize_downloaders(): the platform whose
\* downloader is returned, or the exception raised
get_downloader(u, registry) ==
    LET platform == detect_platform(u)
    IN  IF platform = NoPlatform THEN "PlatformNotSupportedError"
        ELSE IF platform \notin registry THEN "PlatformNotSupportedError"
        ELSE platform

\* The strings given to the registry: lead \o scheme \o body \o trail
Leads ==
    { <<>>,
      <<" ">> }
Schemes ==
    { <<>>,
      <<"h", "t", "t", "p", "s", ":", "/", "/">>,
      <<"h", "t", "t", "p", "s", ":", "/", "/", "w", "w", "w", ".">>,
      <<"h", "t", "t", "p", "s", ":", "/", "/", "m", ".">>,
      <<"/">>,
      <<".", "/">>,
      <<".", ".", "/">>,
      <<"C", ":", "\\">> }
Bodies ==
    { <<>>,
      <<"b", "i", "l", "i", "b", "i", "l", "i", ".", "c", "o", "m", "/", "v", "i", "d", "e", "o", "/", "B", "V", "1">>,
      <<"B", "i", "l", "i", "B", "i", "l", "i", ".", "c", "o", "m", "/", "v", "i", "d", "e", "o", "/", "B", "V", "1">>,
      <<"b", "2", "3", ".", "t", "v", "/", "x">>,
      <<"y", "o", "u", "t", "u", "b", "e", ".", "c", "o", "m", "/", "w", "a", "t", "c", "h", "?", "v", "=", "x">>,
      <<"Y", "o", "u", "T", "u", "b", "e", ".", "c", "o", "m", "/", "w", "a", "t", "c", "h", "?", "v", "=", "x">>,
      <<"y", "o", "u", "t", "u", ".", "b", "e", "/", "x">>,
      <<"y", "o", "u", "t", "u", "b", "e", ".", "c", "o", "m", "/", "s", "h", "o", "r", "t", "s", "/", "x">>,
      <<"y", "o", "u", "t", "u", "b", "e", ".", "c", "o", "m", "/", "e", "m", "b", "e", "d", "/", "x">>,
      <<"y", "o", "u", "t", "u", "b", "e", ".", "c", "o", "m", "/", "v", "/", "x">>,
      <<"d", "o", "u", "y", "i", "n", ".", "c", "o", "m", "/", "v", "i", "d", "e", "o", "/", "1">>,
      <<"t", "i", "k", "t", "o", "k", ".", "c", "o", "m", "/", "@", "u", "/", "v", "i", "d", "e", "o", "/", "1">>,
      <<"e", "x", "a", "m", "p", "l", "e", ".", "c", "o", "m", "/", "v", "i", "d", "e", "o">>,
      <<"a", ".", "m", "p", "4">> }
Trails ==
    { <<>>,
      <<" ">> }

Urls == {a \o b \o c \o d : a \in Leads, b \in Schemes, c \in Bodies, d \in Trails}

\* a string that can name a file: it holds no "://" and is not blank
PathLike(u) == Strip(u) # <<>> /\ ~Contains(u, <<":", "/", "/">>)

\* the strings and the state of the filesystem a caller can come with
Inputs == {in \in Urls \X BOOLEAN : in[2] => PathLike(in[1])}

\* the registry module has been imported; a caller holds a string
InitRegistry ==
    /\ \E in \in Inputs :
          /\ url = in[1]
          /\ is_file = in[2]
    /\ downloaders = {}
    /\ downloaders_initialized = FALSE
    /\ detected = "unset"
    /\ prev_detected = "unset"
    /\ got = "unset"
    /\ IdlePipeline
    /\ IdleBatch
    /\ IdleDownload
    /\ IdleSummarize
    /\ IdleConvert
    /\ IdleDeps
    /\ IdleWhisper
    /\ IdleUrl

\* the caller calls detect_platform(url)
DetectPlatformCall ==
    /\ detected' = detect_platform(url)
    /\ prev_detected' = detected
    /\ UNCHANGED <<urlVars, whVars, depVars, convVars, pipeVars, batchVars, dlVars, sumVars, url, is_file, downloaders,
                   downloaders_initialized, got>>

\* the caller calls get_downloader(url): _initialize_downloaders() fills
\* _downloaders on the first call
GetDownloaderCall ==
    /\ LET registry == IF downloaders_initialized THEN downloaders
                       ELSE downloaders \cup Registered
       IN  /\ downloaders' = registry
           /\ downloaders_initialized' = TRUE
           /\ got' = get_downloader(url, registry)
    /\ UNCHANGED <<urlVars, whVars, depVars, convVars, pipeVars, batchVars, dlVars, sumVars, url, is_file, detected, prev_detected>>

\* the caller, having got an answer, comes with another string
NextInput ==
    /\ got # "unset"
    /\ prev_detected # "unset"
    /\ \E in \in Inputs :
          /\ url' = in[1]
          /\ is_file' = in[2]
    /\ detected' = "unset"
    /\ prev_detected' = "unset"
    /\ got' = "unset"
    /\ UNCHANGED <<urlVars, whVars, depVars, convVars, pipeVars, batchVars, dlVars, sumVars, downloaders, downloaders_initialized>>

NextRegistry ==
    \/ DetectPlatformCall
    \/ GetDownloaderCall
    \/ NextInput

SpecRegistry == InitRegistry /\ [][NextRegistry]_vars

----------------------------------------------------------------------------
(* downloaders/base.py, the downloaders' download() and the UI's          *)
(* download_video_task                                                     *)

\* the keyword-only parameters of each downloader's download()
download_params(p) ==
    IF p \in {"BILIBILI", "YOUTUBE"}
    THEN {"download_video", "download_audio", "progress_hook"}
    ELSE {"download_video", "download_audio", "progress_hook", "cookie"}

\* the keyword arguments each caller passes to download(url, output_dir, ...)
DownloadKwargs(who) ==
    IF who = "download_video_task" THEN {"progress_hook", "cookie"}
    ELSE IF who = "app.download_video_task" THEN {"progress_hook"}
    ELSE {}

\* the two copies of download_video_task: ui/components/input_section.py
\* and ui/app.py
TaskCallers == {"download_video_task", "app.download_video_task"}

\* LocalDownloader.VIDEO_EXTENSIONS and AUDIO_EXTENSIONS
VIDEO_EXTENSIONS ==
    { <<".", "m", "p", "4">>,
      <<".", "a", "v", "i">>,
      <<".", "m", "k", "v">>,
      <<".", "m", "o", "v">>,
      <<".", "w", "m", "v">>,
      <<".", "f", "l", "v">>,
      <<".", "w", "e", "b", "m">>,
      <<".", "m", "4", "v">>,
      <<".", "m", "p", "e", "g">>,
      <<".", "m", "p", "g">>,
      <<".", "3", "g", "p">> }
AUDIO_EXTENSIONS ==
    { <<".", "m", "p", "3">>,
      <<".", "w", "a", "v">>,
      <<".", "f", "l", "a", "c">>,
      <<".", "a", "a", "c">>,
      <<".", "o", "g", "g">>,
      <<".", "m", "4", "a">>,
      <<".", "w", "m", "a">> }

\* the index of the last occurrence of ch in s, 0 when there is none
RECURSIVE LastIndex(_, _)
LastIndex(s, ch) ==
    IF s = <<>> THEN 0
    ELSE IF s[Len(s)] = ch THEN Len(s)
    ELSE LastIndex(SubSeq(s, 1, Len(s) - 1), ch)

\* a path without its trailing slashes
RECURSIVE NoTrailingSlash(_)
NoTrailingSlash(s) ==
    IF s # <<>> /\ s[Len(s)] = "/"
    THEN NoTrailingSlash(SubSeq(s, 1, Len(s) - 1)) ELSE s

\* Path(u).name
PathName(u) ==
    LET q == NoTrailingSlash(u)
    IN  SubSeq(q, LastIndex(q, "/") + 1, Len(q))

\* Path(u).suffix: from the last dot of the name on, when that dot is
\* neither the first nor the last character of the name
RawSuffix(u) ==
    LET name == PathName(u)
        dot  == LastIndex(name, ".")
    IN  IF dot <= 1 \/ dot = Len(name) THEN <<>>
        ELSE SubSeq(name, dot, Len(name))

\* Path(u).suffix.lower()
Suffix(u) == [i \in 1..Len(RawSuffix(u)) |-> LowerChar(RawSuffix(u)[i])]

\* Path(u).stem
PathStem(u) ==
    LET name == PathName(u)
        dot  == LastIndex(name, ".")
    IN  IF dot <= 1 \/ dot = Len(name) THEN name
        ELSE SubSeq(name, 1, dot - 1)

\* a path: directory, stem and suffix
FilePath(dir, stem, ext) == [dir |-> dir, stem |-> stem, ext |-> ext]
NoPath == FilePath("", <<>>, <<>>)

\* what a DownloadResult(...) call gives when nothing is checked
Built(file_path, title, video_id, platform) ==
    [state |-> "ok", error |-> "none", file_path |-> file_path,
     title |-> title, video_id |-> video_id, platform |-> platform]

\* an exception in place of a result
Raised(error) ==
    [state |-> "raised", error |-> error, file_path |-> NoPath,
     title |-> "", video_id |-> "", platform |-> "none"]

NoResult ==
    [state |-> "none", error |-> "none", file_path |-> NoPath,
     title |-> "", video_id |-> "", platform |-> "none"]

\* mutant: __post_init__ does not look at file_path
DownloadResult_unchecked(file_path, title, video_id, platform, fs) ==
    Built(file_path, IF title = "" THEN video_id ELSE title, video_id, platform)

\* DownloadResult(...) with __post_init__; fs: the files that exist
DownloadResult(file_path, title, video_id, platform, fs) ==
    IF file_path \notin fs THEN Raised("ValueError")
    ELSE IF title = "" THEN Built(file_path, video_id, video_id, platform)
    ELSE Built(file_path, title, video_id, platform)

\* @dataclass(frozen=True)
Frozen == TRUE

\* obj.<field> = value on a DownloadResult
SetAttr(obj, field, value) ==
    IF Frozen THEN [obj |-> obj, setattr |-> "FrozenInstanceError"]
    ELSE [obj |-> [obj EXCEPT ![field] = value], setattr |-> "assigned"]

\* re.sub(r'[<>:"/\\|?*]', '_', topic_name)[:100]
ForbiddenChars == {"<", ">", ":", "\"", "/", "\\", "|", "?", "*"}
TopicLimit == 100

\* mutant: the substitution without the slice [:100]
SafeTopic_unlimited(t) ==
    [i \in 1..Len(t) |-> IF t[i] \in ForbiddenChars THEN "_" ELSE t[i]]

SafeTopic(t) ==
    LET subbed == [i \in 1..Len(t) |->
                      IF t[i] \in ForbiddenChars THEN "_" ELSE t[i]]
    IN  IF Len(subbed) > TopicLimit THEN SubSeq(subbed, 1, TopicLimit)
        ELSE subbed

\* the id the backend reports for a video, and the extensions it writes
s_id == <<"i", "d">>
s_mp4 == <<".", "m", "p", "4">>
s_webm == <<".", "w", "e", "b", "m">>

\* the strings a download is asked for: lead \o scheme \o body
DownloadBodies ==
    { <<>>,
      <<"b", "i", "l", "i", "b", "i", "l", "i", ".", "c", "o", "m", "/", "v", "i", "d", "e", "o", "/", "B", "V", "1">>,
      <<"y", "o", "u", "t", "u", "b", "e", ".", "c", "o", "m", "/", "w", "a", "t", "c", "h", "?", "v", "=", "x">>,
      <<"y", "o", "u", "t", "u", "b", "e", ".", "c", "o", "m", "/", "e", "m", "b", "e", "d", "/", "x">>,
      <<"d", "o", "u", "y", "i", "n", ".", "c", "o", "m", "/", "v", "i", "d", "e", "o", "/", "1">>,
      <<"e", "x", "a", "m", "p", "l", "e", ".", "c", "o", "m", "/", "v", "i", "d", "e", "o">>,
      <<"a", ".", "m", "p", "4">>,
      <<"A", ".", "M", "P", "4">>,
      <<"n", "o", "t", "e", "s", ".", "t", "x", "t">> }

DownloadUrls == {a \o b \o c : a \in Leads, b \in Schemes, c \in DownloadBodies}

DownloadInputs == {in \in DownloadUrls \X BOOLEAN : in[2] => PathLike(in[1])}

\* topic names: empty, blank, plain, padded, with characters that are
\* replaced, and one longer than the limit
TopicNames ==
    { <<>>, <<" ">>, <<"t">>, <<" ", "t", " ">>,
      <<"a", "/", "b", ":", "c">>,
      [i \in 1..(TopicLimit + 1) |-> "x"] }

\* what the backend does when it is asked: for yt-dlp "ok" writes <id>.mp4,
\* "other_ext" writes <id>.webm, "no_file" returns the info and writes
\* nothing, "error" raises, "import_error" is a missing yt_dlp module; for a
\* local file "error" is a copy that fails
Backends == {"ok", "other_ext", "no_file", "error", "import_error"}

\* what download_video_task returns
TaskReturn(video_path, status, title) ==
    [state |-> "returned", video_path |-> video_path, status |-> status,
     title |-> title]
TaskError(status) == TaskReturn(NoPath, status, "")
NoReturn == [state |-> "none", video_path |-> NoPath, status |-> "none",
             title |-> ""]

NoProbe == [obj |-> NoResult, setattr |-> "none"]

\* a caller holds a url; input/ may hold a file of an earlier download
InitDownload ==
    /\ caller \in TaskCallers \cup {"direct"}
    /\ \E in \in DownloadInputs :
          /\ url = in[1]
          /\ is_file = in[2]
    /\ topic_name \in (IF caller = "direct" THEN {<<"t">>} ELSE TopicNames)
    /\ backend \in Backends
    /\ task_pc = "start"
    /\ temp_files = {}
    /\ input_files \in SUBSET {[stem |-> <<"t">>, ext |-> s_mp4, content |-> "old"]}
    /\ meta_files = {}
    /\ dl_result = NoResult
    /\ task_ret = NoReturn
    /\ task_log = <<>>
    /\ probe = NoProbe
    /\ downloaders = {}
    /\ downloaders_initialized = FALSE
    /\ detected = "unset"
    /\ prev_detected = "unset"
    /\ got = "unset"
    /\ IdlePipeline
    /\ IdleBatch
    /\ IdleSummarize
    /\ IdleConvert
    /\ IdleDeps
    /\ IdleWhisper
    /\ IdleUrl

\* _downloaders after _initialize_downloaders()
Initialized == IF downloaders_initialized THEN downloaders
               ELSE downloaders \cup Registered

\* download_video_task from its first line to `await downloader.download(...)`
TaskBegin ==
    /\ caller \in TaskCallers
    /\ task_pc = "start"
    /\ LET u        == Strip(url)
           t        == Strip(topic_name)
           platform == detect_platform(u)
           d        == get_downloader(u, Initialized)
       IN  \E DOWNLOADERS_AVAILABLE \in BOOLEAN :
           IF ~DOWNLOADERS_AVAILABLE
           THEN /\ task_ret' = TaskError("not_available")
                /\ task_pc' = "returned"
                /\ UNCHANGED <<task_log, downloaders, downloaders_initialized>>
           ELSE IF u = <<>>
           THEN /\ task_ret' = TaskError("enter_url")
                /\ task_pc' = "returned"
                /\ UNCHANGED <<task_log, downloaders, downloaders_initialized>>
           ELSE IF t = <<>>
           THEN /\ task_ret' = TaskError("enter_topic")
                /\ task_pc' = "returned"
                /\ UNCHANGED <<task_log, downloaders, downloaders_initialized>>
           ELSE IF platform = NoPlatform
           THEN /\ task_ret' = TaskError("unsupported_platform")
                /\ task_pc' = "returned"
                /\ UNCHANGED <<task_log, downloaders, downloaders_initialized>>
           ELSE /\ downloaders' = Initialized
                /\ downloaders_initialized' = TRUE
                /\ IF d = "PlatformNotSupportedError"
                   THEN /\ task_ret' = TaskError("platform_not_supported")
                        /\ task_pc' = "returned"
                        /\ task_log' = task_log \o <<"detected", "topic">>
                   ELSE IF ~CallAccepted(DownloadKwargs(caller), download_params(d))
                   THEN \* TypeError, caught by `except Exception`
                        /\ task_ret' = TaskError("error")
                        /\ task_pc' = "returned"
                        /\ task_log' = task_log \o
                               <<"detected", "topic", "downloading">>
                   ELSE /\ task_ret' = task_ret
                        /\ task_pc' = "downloading"
                        /\ task_log' = task_log \o
                               <<"detected", "topic", "downloading">>
    /\ UNCHANGED <<urlVars, whVars, depVars, convVars, pipeVars, batchVars, sumVars, url, is_file, detected, prev_detected,
                   got, caller, topic_name, backend, temp_files, input_files,
                   meta_files, dl_result, probe>>

\* the usage of the package docstring: get_downloader(url), then
\* downloader.download(url, output_dir)
DirectBegin ==
    /\ caller = "direct"
    /\ task_pc = "start"
    /\ downloaders' = Initialized
    /\ downloaders_initialized' = TRUE
    /\ LET d == get_downloader(url, Initialized)
       IN  IF d = "PlatformNotSupportedError"
           THEN /\ dl_result' = Raised("PlatformNotSupportedError")
                /\ task_pc' = "returned"
           ELSE /\ dl_result' = dl_result
                /\ task_pc' = "downloading"
    /\ UNCHANGED <<urlVars, whVars, depVars, convVars, pipeVars, batchVars, sumVars, url, is_file, detected, prev_detected,
                   got, caller, topic_name, backend, temp_files, input_files,
                   meta_files, task_ret, task_log, probe>>

\* the url download() is given: download_video_task passes the stripped
\* string, the direct caller the string as it is
PassedUrl == IF caller \in TaskCallers THEN Strip(url) ELSE url

\* YoutubeDownloader.download / BilibiliDownloader.download for platform d
YtDlpDownload(d, title) ==
    IF backend = "import_error"
    THEN [files |-> {}, result |-> Raised("ImportError")]
    ELSE IF backend = "error" \/ backend = "no_file"
    THEN [files |-> {}, result |-> Raised("DownloadFailedError")]
    ELSE LET file_path == FilePath("temp", s_id,
                              IF backend = "ok" THEN s_mp4 ELSE s_webm)
             made == DownloadResult(file_path, title, "id", d, {file_path})
         IN  [files |-> {file_path},
              result |-> IF made.state = "raised"
                         THEN Raised("DownloadFailedError") ELSE made]

\* LocalDownloader.download
LocalDownload(u) ==
    IF ~(is_file /\ u = Strip(url))
    THEN [files |-> {}, result |-> Raised("DownloadFailedError")]
    ELSE IF Suffix(u) \notin VIDEO_EXTENSIONS \cup AUDIO_EXTENSIONS
    THEN [files |-> {}, result |-> Raised("DownloadFailedError")]
    ELSE IF backend = "error"
    THEN [files |-> {}, result |-> Raised("DownloadFailedError")]
    ELSE LET dest_path == FilePath("temp", PathStem(u), RawSuffix(u))
         IN  [files |-> {dest_path},
              result |-> DownloadResult(dest_path, "stem", "stem", "LOCAL",
                                        {dest_path})]

\* `await downloader.download(...)` returns or raises
DownloadReturns ==
    /\ task_pc = "downloading"
    /\ LET d == get_downloader(PassedUrl, downloaders)
       IN  \E title \in {"", "T"} :
              LET r == IF d = "LOCAL" THEN LocalDownload(PassedUrl)
                       ELSE YtDlpDownload(d, title)
              IN  /\ temp_files' = temp_files \cup r.files
                  /\ dl_result' = r.result
    /\ task_pc' = "downloaded"
    /\ UNCHANGED <<urlVars, whVars, depVars, convVars, pipeVars, batchVars, regVars, sumVars, caller, topic_name, backend,
                   input_files, meta_files, task_ret, task_log, probe>>

\* download_video_task after the download: the except clauses, or the move
\* to input/, the metadata file and the return; leaving the `with` block
\* removes the temporary directory
TaskFinish ==
    /\ caller \in TaskCallers
    /\ task_pc = "downloaded"
    /\ task_pc' = "returned"
    /\ temp_files' = {}
    /\ IF dl_result.state = "raised"
       THEN /\ task_ret' = TaskError(IF dl_result.error = "DownloadFailedError"
                                     THEN "download_failed" ELSE "error")
            /\ UNCHANGED <<input_files, meta_files, task_log>>
       ELSE LET safe == SafeTopic(Strip(topic_name))
                video_ext == IF dl_result.file_path.ext = <<>> THEN s_mp4
                             ELSE dl_result.file_path.ext
                moved == {f \in input_files :
                             ~(f.stem = safe /\ f.ext = video_ext)}
                         \cup {[stem |-> safe, ext |-> video_ext,
                                content |-> "new"]}
            IN  \E move_ok \in BOOLEAN, meta_ok \in BOOLEAN :
                   IF ~move_ok
                   THEN /\ task_ret' = TaskError("error")
                        /\ UNCHANGED <<input_files, meta_files, task_log>>
                   ELSE /\ input_files' = moved
                        /\ task_log' = Append(task_log, "downloaded")
                        /\ IF meta_ok
                           THEN /\ meta_files' = meta_files \cup {safe}
                                /\ task_ret' = TaskReturn(
                                       FilePath("input", safe, video_ext),
                                       "ready", dl_result.title)
                           ELSE /\ meta_files' = meta_files
                                /\ task_ret' = TaskError("error")
    /\ UNCHANGED <<urlVars, whVars, depVars, convVars, pipeVars, batchVars, regVars, sumVars, caller, topic_name, backend,
                   dl_result, probe>>

\* the direct caller has its result or its exception
DirectFinish ==
    /\ caller = "direct"
    /\ task_pc = "downloaded"
    /\ task_pc' = "returned"
    /\ UNCHANGED <<urlVars, whVars, depVars, convVars, pipeVars, batchVars, regVars, sumVars, caller, topic_name, backend,
                   temp_files, input_files, meta_files, dl_result, task_ret,
                   task_log, probe>>

\* some code calls DownloadResult(...) itself, for a file that exists or
\* for one that does not
ConstructResult ==
    /\ task_pc = "returned"
    /\ probe = NoProbe
    /\ \E file_path \in temp_files \cup {FilePath("temp", <<"n", "o">>, s_mp4)},
          title \in {"", "T"} :
          probe' = [obj |-> DownloadResult(file_path, title, "id", "YOUTUBE",
                                           temp_files),
                    setattr |-> "none"]
    /\ UNCHANGED <<urlVars, whVars, depVars, convVars, pipeVars, batchVars, regVars, sumVars, caller, topic_name, backend,
                   task_pc, temp_files, input_files, meta_files, dl_result,
                   task_ret, task_log>>

\* some code assigns to a field of a DownloadResult it holds
Reassign ==
    /\ probe.obj.state = "ok"
    /\ probe.setattr = "none"
    /\ \E field \in {"title", "video_id"} :
          probe' = SetAttr(probe.obj, field, "other")
    /\ UNCHANGED <<urlVars, whVars, depVars, convVars, pipeVars, batchVars, regVars, sumVars, caller, topic_name, backend,
                   task_pc, temp_files, input_files, meta_files, dl_result,
                   task_ret, task_log>>

NextDownload ==
    \/ TaskBegin
    \/ DirectBegin
    \/ DownloadReturns
    \/ TaskFinish
    \/ DirectFinish
    \/ ConstructResult
    \/ Reassign

SpecDownload == InitDownload /\ [][NextDownload]_vars

----------------------------------------------------------------------------
(* agents/summarize_host.py: summarize_host on a list of SRT paths *)

MaxSrts == 2

\* root_output_dir = Path("output")
root_output_dir == <<"output">>

\* the parent directories an SRT path can have, as path components: under
\* output/ or not, named after the stem or not, relative or absolute, and
\* the empty parent of a bare file name
SrtParents ==
    { <<"output", "a">>, <<"output", "b">>, <<"output">>, <<"work", "a">>,
      <<"work">>, <<"/", "srv", "output", "a">>, <<>> }

SrtPaths == [parent : SrtParents, stem : {"a", "b"}]

\* Path.name of a directory
DirName(dir) == IF dir = <<>> THEN "" ELSE dir[Len(dir)]

\* per_file_dir
PerFileDir(srt) ==
    IF DirName(srt.parent) = srt.stem THEN srt.parent
    ELSE root_output_dir \o <<srt.stem>>

\* dir.relative_to(root_output_dir) succeeds
IsRelativeTo(dir, root) ==
    /\ Len(dir) >= Len(root)
    /\ SubSeq(dir, 1, Len(root)) = root

\* find_moved_media(file_name, per_file_dir) finds a file that exists
MediaFoundIn(dir) == dir \in sum_media

\* per_file_dir / f"{file_name}.md"
MdPath(dir, stem) == [dir |-> dir, name |-> stem]

SrtLists == UNION {[1..n -> SrtPaths] : n \in 0..MaxSrts}

InitSummarize ==
    /\ sum_srts \in SrtLists
    /\ sum_media \in SUBSET {PerFileDir(sum_srts[i]) : i \in 1..Len(sum_srts)}
    /\ sum_idx = 1
    /\ output_paths = <<>>
    /\ sum_written = <<>>
    /\ sum_state = "running"
    /\ IdlePipeline
    /\ IdleBatch
    /\ IdleRegistry
    /\ IdleDownload
    /\ IdleConvert
    /\ IdleDeps
    /\ IdleWhisper
    /\ IdleUrl

\* one turn of `for srt in srts`: the agent run returns (agent_ok) or
\* raises; then the media section is built and the markdown written
SummarizeFile ==
    /\ sum_state = "running"
    /\ sum_idx <= Len(sum_srts)
    /\ LET srt == sum_srts[sum_idx]
           per_file_dir == PerFileDir(srt)
           out_path == MdPath(per_file_dir, srt.stem)
       IN  \E agent_ok \in BOOLEAN :
              IF ~agent_ok
              THEN /\ sum_state' = "agent_error"
                   /\ UNCHANGED <<sum_idx, output_paths, sum_written>>
              ELSE IF ~MediaFoundIn(per_file_dir)
                      /\ ~IsRelativeTo(per_file_dir, root_output_dir)
              THEN /\ sum_state' = "ValueError"
                   /\ UNCHANGED <<sum_idx, output_paths, sum_written>>
              ELSE /\ sum_written' = Append(sum_written, out_path)
                   /\ output_paths' = Append(output_paths, out_path)
                   /\ sum_idx' = sum_idx + 1
                   /\ sum_state' = sum_state
    /\ UNCHANGED <<urlVars, whVars, depVars, convVars, pipeVars, batchVars, regVars, dlVars, sum_srts, sum_media>>

\* `return output_paths`
SummarizeReturn ==
    /\ sum_state = "running"
    /\ sum_idx > Len(sum_srts)
    /\ sum_state' = "returned"
    /\ UNCHANGED <<urlVars, whVars, depVars, convVars, pipeVars, batchVars, regVars, dlVars, sum_srts, sum_media,
                   sum_idx, output_paths, sum_written>>

NextSummarize ==
    \/ SummarizeFile
    \/ SummarizeReturn

SpecSummarize == InitSummarize /\ [][NextSummarize]_vars

----------------------------------------------------------------------------
(***************************************************************************)
(* utils/transcript_converter.py.  A Python float is an IEEE-754 binary64. *)
(* A time of M whole milliseconds reaches the converters as the float      *)
(* nearest to M/1000; timedelta rounds it to M*1000 microseconds and       *)
(* total_seconds() divides by 10**6, which gives that same float back.     *)
(* The float is kept as M together with its rounding error: its value is   *)
(* M/1000 + err / (1000 * 2^(52 - exp)), where 2^exp <= M/1000 < 2^(exp+1).*)
(* Integers are exact floats and rounding is monotone, so the integer part *)
(* of the float is M div 1000; only the fraction carries the error.        *)
(***************************************************************************)
MaxSegments == 2
MaxMillis == 2100

\* bits of the significand of a binary64
MantissaBits == 53

RECURSIVE Pow2(_)
Pow2(n) == IF n <= 0 THEN 1 ELSE 2 * Pow2(n - 1)

RECURSIVE Pow2Mod1000(_)
Pow2Mod1000(n) == IF n = 0 THEN 1 ELSE (2 * Pow2Mod1000(n - 1)) % 1000

RECURSIVE FloorLog2(_)
FloorLog2(q) == IF q < 2 THEN 0 ELSE 1 + FloorLog2(q \div 2)

RECURSIVE Doublings(_)
Doublings(m) == IF m >= 1000 THEN 0 ELSE 1 + Doublings(2 * m)

\* exp with 2^exp <= M/1000 < 2^(exp+1), for M > 0
Exponent(M) == IF M >= 1000 THEN FloorLog2(M \div 1000) ELSE 0 - Doublings(M)

\* the significand is M * 2^s / 1000 rounded to the nearest integer, with
\* s = 52 - exp; err is 1000 * significand - M * 2^s.  A tie would need
\* M * 2^s = 500 (mod 1000), which no s >= 3 allows.
RoundingError(M) ==
    IF M = 0 THEN 0
    ELSE LET s == (MantissaBits - 1) - Exponent(M)
             x == ((M % 1000) * Pow2Mod1000(s)) % 1000
         IN  IF x < 500 THEN 0 - x ELSE 1000 - x

Float(M) == [ms |-> M, err |-> RoundingError(M),
             exp |-> IF M = 0 THEN 0 ELSE Exponent(M)]

\* timedelta(seconds=seconds).total_seconds()
total_seconds(seconds) == Float(seconds.ms)

\* j with 2^j < k <= 2^(j+1): the floats just below k are 2^(j-52) apart
RECURSIVE SpacingExp(_)
SpacingExp(k) == IF k <= 1 THEN -1 ELSE 1 + SpacingExp((k + 1) \div 2)

\* int((x % 1) * 1000): x % 1 is exact, the product k + err/2^s is rounded
\* to the nearest float (ties to the even significand, which is k's), and
\* int() truncates
TruncMillis(x) ==
    LET k == x.ms % 1000
        e == SpacingExp(k) - x.exp - 1
        half == IF e >= 0 THEN Pow2(e) ELSE 0
    IN  IF x.err < 0 /\ (0 - x.err) > half THEN k - 1 ELSE k

Digit(d) == <<"0", "1", "2", "3", "4", "5", "6", "7", "8", "9">>[d + 1]

RECURSIVE Str(_)
Str(n) == IF n < 10 THEN <<Digit(n)>> ELSE Str(n \div 10) \o <<Digit(n % 10)>>

\* f"{n:0<w>d}"
RECURSIVE ZeroPad(_, _)
ZeroPad(s, w) == IF Len(s) >= w THEN s ELSE ZeroPad(<<"0">> \o s, w)

format_timestamp(seconds, sep) ==
    LET td == total_seconds(seconds)
        whole == td.ms \div 1000
        hours == whole \div 3600
        minutes == (whole % 3600) \div 60
        secs == whole % 60
        millis == TruncMillis(td)
    IN  ZeroPad(Str(hours), 2) \o <<":">> \o ZeroPad(Str(minutes), 2)
          \o <<":">> \o ZeroPad(Str(secs), 2) \o <<sep>>
          \o ZeroPad(Str(millis), 3)

format_timestamp_srt(seconds) == format_timestamp(seconds, ",")

format_timestamp_vtt(seconds) == format_timestamp(seconds, ".")

\* f"{x:.2f}": the float's exact value rounded to hundredths; a decimal tie
\* is decided by the side the float lies on, an exact tie goes to even
Fixed2(x) ==
    LET q == x.ms \div 10
        rem == x.ms % 10
        c == IF rem < 5 THEN q
             ELSE IF rem > 5 THEN q + 1
             ELSE IF x.err > 0 THEN q + 1
             ELSE IF x.err < 0 THEN q
             ELSE IF q % 2 = 0 THEN q ELSE q + 1
    IN  Str(c \div 100) \o <<".">> \o ZeroPad(Str(c % 100), 2)

NL == "\n"

\* sep.join(items)
RECURSIVE Join(_, _)
Join(items, sep) ==
    IF items = <<>> THEN <<>>
    ELSE IF Len(items) = 1 THEN items[1]
    ELSE items[1] \o <<sep>> \o Join(Tail(items), sep)

Arrow == <<" ", "-", "-", ">", " ">>

\* the same, counting as enumerate() does without start=1
SrtBlock_from0(i, segment) ==
    << Str(i - 1),
       format_timestamp_srt(segment.start) \o Arrow
          \o format_timestamp_srt(segment.end),
       segment.text,
       <<>> >>

\* the four items appended for one segment
SrtBlock(i, segment) ==
    << Str(i),
       format_timestamp_srt(segment.start) \o Arrow
          \o format_timestamp_srt(segment.end),
       segment.text,
       <<>> >>

RECURSIVE srt_content(_, _)
srt_content(segments, i) ==
    IF i > Len(segments) THEN <<>>
    ELSE SrtBlock(i, segments[i]) \o srt_content(segments, i + 1)

transcript_to_srt(t) == Join(srt_content(t.segments, 1), NL)

VttBlock(segment) ==
    << format_timestamp_vtt(segment.start) \o Arrow
          \o format_timestamp_vtt(segment.end),
       segment.text,
       <<>> >>

RECURSIVE vtt_content(_, _)
vtt_content(segments, i) ==
    IF i > Len(segments) THEN <<>>
    ELSE VttBlock(segments[i]) \o vtt_content(segments, i + 1)

s_WEBVTT == <<"W", "E", "B", "V", "T", "T">>

transcript_to_vtt(t) == Join(<<s_WEBVTT, <<>>>> \o vtt_content(t.segments, 1), NL)

TxtLine(segment, include_timestamps) ==
    IF include_timestamps
    THEN <<"[">> \o Fixed2(segment.start) \o <<"s", " ", "-", " ">>
           \o Fixed2(segment.end) \o <<"s", "]", " ">> \o segment.text
    ELSE segment.text

s_Language == <<"L", "a", "n", "g", "u", "a", "g", "e", ":", " ">>
s_Segments == <<"S", "e", "g", "m", "e", "n", "t", "s", ":", " ">>
s_Unknown == <<"U", "n", "k", "n", "o", "w", "n">>
s_en == <<"e", "n">>
RuleWidth == 60

transcript_to_txt(t, include_timestamps, include_metadata) ==
    LET head == IF include_metadata
                THEN << s_Language \o (IF t.language = <<>>
                                       THEN s_Unknown ELSE t.language),
                        s_Segments \o Str(Len(t.segments)),
                        [i \in 1..RuleWidth |-> "-"],
                        <<>> >>
                ELSE <<>>
        body == [i \in 1..Len(t.segments) |->
                    TxtLine(t.segments[i], include_timestamps)]
    IN  Join(head \o body, NL)

\* dataclasses.asdict: a fresh dict of the fields, the segments copied
asdict(t) ==
    [language |-> t.language, full_text |-> t.full_text,
     segments |-> [i \in 1..Len(t.segments) |->
                      [start |-> t.segments[i].start, end |-> t.segments[i].end,
                       text |-> t.segments[i].text]],
     raw |-> "none"]

\* json.dumps(asdict(transcript), ...): kept as the data and the indent
transcript_to_json(t, pretty) ==
    [json |-> asdict(t), indent |-> IF pretty THEN 2 ELSE 0]

\* what a converter that consumed the segments list would leave
AfterRead_consuming(t) == [t EXCEPT !.segments = <<>>]

\* what a converter leaves of the transcript it was handed
AfterRead(t) == t

Suffixes == {".srt", ".SRT", ".vtt", ".txt", ".json", ".md"}
SaveFormats == {"auto", "srt", "vtt", "txt", "json", "docx"}
SaveKwargs == {{}, {"pretty"}, {"include_timestamps"}}

format_map(ext) ==
    IF ext \in {".srt", ".vtt", ".txt", ".json"}
    THEN CHOOSE f \in {"srt", "vtt", "txt", "json"} :
            ext = IF f = "srt" THEN ".srt" ELSE IF f = "vtt" THEN ".vtt"
                  ELSE IF f = "txt" THEN ".txt" ELSE ".json"
    ELSE "txt"

LowerSuffix(suffix) == IF suffix = ".SRT" THEN ".srt" ELSE suffix

\* save_transcript after the directory was made: the content, or the raise
save_content(t, suffix, format, kwargs) ==
    LET fmt == IF format = "auto" THEN format_map(LowerSuffix(suffix)) ELSE format
    IN  IF fmt = "srt" THEN [state |-> "ok", content |-> transcript_to_srt(t)]
        ELSE IF fmt = "vtt" THEN [state |-> "ok", content |-> transcript_to_vtt(t)]
        ELSE IF fmt = "json"
        THEN IF kwargs \subseteq {"pretty"}
             THEN [state |-> "ok", content |-> transcript_to_json(t, TRUE)]
             ELSE [state |-> "TypeError"]
        ELSE IF fmt = "txt"
        THEN IF kwargs \subseteq {"include_timestamps", "include_metadata"}
             THEN [state |-> "ok",
                   content |-> transcript_to_txt(t, "include_timestamps" \in kwargs,
                                                 "include_metadata" \in kwargs)]
             ELSE [state |-> "TypeError"]
        ELSE [state |-> "ValueError"]

SegTimes == {0, 1001, 3661500}
Texts == {<<>>, <<"h", "i">>}
Segments == {[start |-> Float(p[1]), end |-> Float(p[2]), text |-> x] :
                p \in {q \in SegTimes \X SegTimes : q[1] <= q[2]}, x \in Texts}
SegmentLists == UNION {[1..n -> Segments] : n \in 0..MaxSegments}

FullText(segments) == Join([i \in 1..Len(segments) |-> segments[i].text], " ")

\* language is None or a code; None and '' are both falsy and kept as <<>>
Transcripts ==
    {[language |-> l, full_text |-> FullText(segs), segments |-> segs] :
        l \in {<<>>, s_en}, segs \in SegmentLists}

LongTimes == {59999, 60000, 3599999, 3600000, 3661001, 359999999}
Times == (0..MaxMillis) \cup LongTimes

NoOut == [state |-> "none"]

InitConvert ==
    /\ transcript \in Transcripts
    /\ conv_fn = "none"
    /\ conv_out = NoOut
    /\ conv_file = NoOut
    /\ ts_in = 0
    /\ ts_out = NoOut
    /\ IdlePipeline
    /\ IdleBatch
    /\ IdleRegistry
    /\ IdleDownload
    /\ IdleSummarize
    /\ IdleDeps
    /\ IdleWhisper
    /\ IdleUrl

\* Every behaviour is one call, made on the transcript chosen at the start.
\* format_timestamp_srt(M/1000) and format_timestamp_vtt(M/1000); the
\* standalone calls are explored next to the transcripts without segments
FormatTimestampCall ==
    /\ conv_fn = "none" /\ ts_out = NoOut
    /\ transcript.segments = <<>>
    /\ \E M \in Times :
          /\ ts_in' = M
          /\ ts_out' = [state |-> "returned",
                        srt |-> format_timestamp_srt(Float(M)),
                        vtt |-> format_timestamp_vtt(Float(M))]
    /\ UNCHANGED <<urlVars, whVars, pipeVars, batchVars, regVars, dlVars, sumVars, depVars,
                   transcript, conv_fn, conv_out, conv_file>>

Returned(fn, value) ==
    /\ conv_fn = "none" /\ ts_out = NoOut
    /\ conv_fn' = fn
    /\ conv_out' = [state |-> "returned", value |-> value]
    /\ transcript' = AfterRead(transcript)
    /\ UNCHANGED <<urlVars, whVars, pipeVars, batchVars, regVars, dlVars, sumVars, depVars,
                   conv_file, ts_in, ts_out>>

ToSrtCall == Returned("transcript_to_srt", transcript_to_srt(transcript))

ToVttCall == Returned("transcript_to_vtt", transcript_to_vtt(transcript))

ToTxtCall ==
    \E include_timestamps, include_metadata \in BOOLEAN :
        Returned("transcript_to_txt",
                 transcript_to_txt(transcript, include_timestamps, include_metadata))

ToJsonCall ==
    \E pretty \in BOOLEAN :
        Returned("transcript_to_json", transcript_to_json(transcript, pretty))

\* save_transcript(transcript, output_path, format, **kwargs); fs_ok is
\* whether mkdir and write_text succeed
SaveTranscriptCall ==
    \E suffix \in Suffixes, format \in SaveFormats, kwargs \in SaveKwargs,
       fs_ok \in BOOLEAN :
        LET made == save_content(transcript, suffix, format, kwargs)
        IN  /\ conv_fn = "none" /\ ts_out = NoOut
            /\ conv_fn' = "save_transcript"
            /\ transcript' = AfterRead(transcript)
            /\ IF made.state # "ok"
               THEN /\ conv_out' = [state |-> made.state]
                    /\ conv_file' = NoOut
               ELSE IF ~fs_ok
               THEN /\ conv_out' = [state |-> "OSError"]
                    /\ conv_file' = NoOut
               ELSE /\ conv_out' = [state |-> "returned", value |-> suffix]
                    /\ conv_file' = [state |-> "written", suffix |-> suffix,
                                     content |-> made.content]
            /\ UNCHANGED <<urlVars, whVars, pipeVars, batchVars, regVars, dlVars, sumVars,
                           depVars, ts_in, ts_out>>

NextConvert ==
    \/ FormatTimestampCall
    \/ ToSrtCall
    \/ ToVttCall
    \/ ToTxtCall
    \/ ToJsonCall
    \/ SaveTranscriptCall

SpecConvert == InitConvert /\ [][NextConvert]_vars

----------------------------------------------------------------------------
(***************************************************************************)
(* utils/dependency_checker.py: DependencyChecker.validate_or_exit, called *)
(* by main.py, and check_all_dependencies called directly (test_deps.py).  *)
(***************************************************************************)
Commands == {"ffmpeg", "node"}

\* what subprocess.run([command] + version_args, timeout=5) does: exit
\* status 0, another status, or an exception
ProbeOutcomes == {"ok", "nonzero", "FileNotFoundError", "TimeoutExpired",
                  "PermissionError"}

\* the exceptions check_command catches
Caught == {"FileNotFoundError", "TimeoutExpired", "CalledProcessError"}

\* check_command: is_available, or the exception that leaves it
check_command(command) ==
    IF dep_env[command] = "ok" THEN [state |-> "returned", ok |-> TRUE]
    ELSE IF dep_env[command] = "nonzero" \/ dep_env[command] \in Caught
    THEN [state |-> "returned", ok |-> FALSE]
    ELSE [state |-> dep_env[command]]

\* check_ffmpeg / check_node: the "[OK] ..." or "[MISSING] ..." message
Message(command, ok) == [dep |-> command, ok |-> ok]

\* all_ok = ok only
AndOk_last(all, ok) == ok

\* all_ok = all_ok and ok
AndOk(all, ok) == all /\ ok

Required(command) == IF command = "ffmpeg" THEN dep_args.require_ffmpeg
                     ELSE dep_args.require_node

DepCallers == {"validate_or_exit", "check_all_dependencies"}

InitDeps ==
    /\ dep_args \in [caller : DepCallers, require_ffmpeg : BOOLEAN,
                     require_node : BOOLEAN, exit_on_failure : BOOLEAN]
    /\ dep_env \in [Commands -> ProbeOutcomes]
    /\ dep_pc = "ffmpeg"
    /\ probed = <<>>
    /\ messages = <<>>
    /\ all_ok = TRUE
    /\ dep_end = "none"
    /\ IdlePipeline
    /\ IdleBatch
    /\ IdleRegistry
    /\ IdleDownload
    /\ IdleSummarize
    /\ IdleConvert
    /\ IdleWhisper
    /\ IdleUrl

\* `if require_<command>:` with the probe, the message and all_ok
CheckStep(command, next) ==
    /\ dep_pc = command
    /\ IF ~Required(command)
       THEN /\ dep_pc' = next
            /\ UNCHANGED <<probed, messages, all_ok, dep_end>>
       ELSE LET res == check_command(command)
            IN  /\ probed' = Append(probed, command)
                /\ IF res.state = "returned"
                   THEN /\ messages' = Append(messages, Message(command, res.ok))
                        /\ all_ok' = AndOk(all_ok, res.ok)
                        /\ dep_pc' = next
                        /\ dep_end' = dep_end
                   ELSE /\ dep_pc' = "end"
                        /\ dep_end' = res.state
                        /\ UNCHANGED <<messages, all_ok>>
    /\ UNCHANGED <<urlVars, whVars, pipeVars, batchVars, regVars, dlVars, sumVars, convVars,
                   dep_args, dep_env>>

CheckFfmpeg == CheckStep("ffmpeg", "node")

CheckNode == CheckStep("node", "return")

\* `return all_ok, messages`, and in validate_or_exit the printing and
\* `if not all_ok:`
DepsFinish ==
    /\ dep_pc = "return"
    /\ dep_pc' = "end"
    /\ dep_end' = IF dep_args.caller = "check_all_dependencies" \/ all_ok
                  THEN "returned"
                  ELSE IF dep_args.exit_on_failure THEN "exit(1)"
                  ELSE "RuntimeError"
    /\ UNCHANGED <<urlVars, whVars, pipeVars, batchVars, regVars, dlVars, sumVars, convVars,
                   dep_args, dep_env, probed, messages, all_ok>>

NextDeps ==
    \/ CheckFfmpeg
    \/ CheckNode
    \/ DepsFinish

SpecDeps == InitDeps /\ [][NextDeps]_vars

----------------------------------------------------------------------------
(***************************************************************************)
(* agents/whisper_host.py called on its own with a list of files, as       *)
(* process_selected and main.run call it.                                  *)
(***************************************************************************)
InitWhisper ==
    /\ wh_files \in DistinctSelections
    /\ wh_oc \in {oc \in [Files -> FileOutcomes] :
                     \A f \in Files \ Range(wh_files) : oc[f].kind = "invalid"}
    /\ wh_startup \in BOOLEAN
    /\ wh_before \in SUBSET Stems
    /\ wh_result = [state |-> "none"]
    /\ IdlePipeline
    /\ IdleBatch
    /\ IdleRegistry
    /\ IdleDownload
    /\ IdleSummarize
    /\ IdleConvert
    /\ IdleDeps
    /\ IdleUrl

\* srts = await whisper_host(selected_files=wh_files)
WhisperHostCall ==
    /\ wh_result.state = "none"
    /\ LET r == whisper_host(wh_files, wh_oc, wh_startup, wh_before)
       IN  wh_result' = IF r.raised THEN [state |-> "raised", srt |-> r.srt]
                        ELSE [state |-> "returned", srts |-> r.srts,
                              srt |-> r.srt]
    /\ UNCHANGED <<urlVars, pipeVars, batchVars, regVars, dlVars, sumVars, convVars,
                   depVars, wh_files, wh_oc, wh_startup, wh_before>>

NextWhisper == WhisperHostCall

SpecWhisper == InitWhisper /\ [][NextWhisper]_vars

----------------------------------------------------------------------------
(***************************************************************************)
(* on_url_download: process_task runs download_video_task and puts its     *)
(* progress messages, its terminal status and the sentinel on log_queue;   *)
(* the generator takes them off and yields them.                           *)
(***************************************************************************)
MaxProgress == 3

\* the messages download_video_task gives to progress_callback
ProgressMessages == {"detected", "downloading"}

\* log_queue.put_nowait(None)
Sentinel == [type |-> "None", content |-> "None"]

Progress(msg) == [type |-> "str", content |-> msg]

\* ("DONE", status) / ("ERROR", str(e))
Terminal(type) == [type |-> type, content |-> "status"]

\* mutant: process_task without its finally clause
TaskEndItems_no_sentinel(type) == <<Terminal(type)>>

\* what process_task puts when download_video_task is over: the status in
\* the try or the except clause, then the sentinel in the finally clause
TaskEndItems(type) == <<Terminal(type), Sentinel>>

InitUrl ==
    /\ url_args \in [topic : BOOLEAN, url : BOOLEAN]
    /\ url_pc = "start"
    /\ url_task = "none"
    /\ log_queue = <<>>
    /\ enqueued = <<>>
    /\ url_log = <<>>
    /\ IdlePipeline
    /\ IdleBatch
    /\ IdleRegistry
    /\ IdleDownload
    /\ IdleSummarize
    /\ IdleConvert
    /\ IdleDeps
    /\ IdleWhisper

\* from the call to the first `await log_queue.get()`: the two checks, the
\* 'Processing URL' line and asyncio.create_task(process_task())
UrlStart ==
    /\ url_pc = "start"
    /\ IF ~url_args.topic
       THEN /\ url_log' = Append(url_log, Progress("enter_topic"))
            /\ url_pc' = "end"
            /\ url_task' = url_task
       ELSE IF ~url_args.url
       THEN /\ url_log' = Append(url_log, Progress("enter_url"))
            /\ url_pc' = "end"
            /\ url_task' = url_task
       ELSE /\ url_log' = Append(url_log, Progress("processing"))
            /\ url_pc' = "get"
            /\ url_task' = "running"
    /\ UNCHANGED <<pipeVars, batchVars, regVars, dlVars, sumVars, convVars,
                   depVars, whVars, url_args, log_queue, enqueued>>

\* download_video_task calls progress_callback(msg)
TaskProgress ==
    /\ url_task = "running"
    /\ Len(enqueued) < MaxProgress
    /\ \E msg \in ProgressMessages :
          /\ log_queue' = Append(log_queue, Progress(msg))
          /\ enqueued' = Append(enqueued, Progress(msg))
    /\ UNCHANGED <<pipeVars, batchVars, regVars, dlVars, sumVars, convVars,
                   depVars, whVars, url_args, url_pc, url_task, url_log>>

\* download_video_task returns or raises; there is no await between the
\* put of the status and the put of the sentinel
TaskEnd ==
    /\ url_task = "running"
    /\ \E type \in {"DONE", "ERROR"} :
          /\ log_queue' = log_queue \o TaskEndItems(type)
          /\ enqueued' = enqueued \o TaskEndItems(type)
    /\ url_task' = "done"
    /\ UNCHANGED <<pipeVars, batchVars, regVars, dlVars, sumVars, convVars,
                   depVars, whVars, url_args, url_pc, url_log>>

\* msg = await log_queue.get() and the body of `while True` for it
ConsumerGet ==
    /\ url_pc = "get"
    /\ log_queue # <<>>
    /\ log_queue' = Tail(log_queue)
    /\ LET msg == Head(log_queue)
       IN  IF msg = Sentinel
           THEN /\ url_pc' = "await_task"
                /\ url_log' = url_log
           ELSE /\ url_pc' = url_pc
                /\ url_log' = Append(url_log, msg)
    /\ UNCHANGED <<pipeVars, batchVars, regVars, dlVars, sumVars, convVars,
                   depVars, whVars, url_args, url_task, enqueued>>

\* await task
UrlAwaitTask ==
    /\ url_pc = "await_task"
    /\ url_task = "done"
    /\ url_pc' = "end"
    /\ UNCHANGED <<pipeVars, batchVars, regVars, dlVars, sumVars, convVars,
                   depVars, whVars, url_args, url_task, log_queue, enqueued,
                   url_log>>

\* the generator's own steps
UrlHandlerNext ==
    \/ UrlStart
    \/ ConsumerGet
    \/ UrlAwaitTask

NextUrl ==
    \/ UrlStart
    \/ TaskProgress
    \/ TaskEnd
    \/ ConsumerGet
    \/ UrlAwaitTask

\* Gradio iterates the generator as long as it can go on; nothing is
\* assumed about the download task
SpecUrl == InitUrl /\ [][NextUrl]_vars /\ WF_vars(UrlHandlerNext)

----------------------------------------------------------------------------
Init ==
    /\ InitPipeline
    /\ IdleBatch
    /\ IdleRegistry
    /\ IdleDownload
    /\ IdleSummarize
    /\ IdleConvert
    /\ IdleDeps
    /\ IdleWhisper
    /\ IdleUrl

Next ==
    \/ HandlerStart
    \/ HandlerMethod
    \/ HandlerPipelines
    \/ HandlerLaunch
    \/ HandlerTraceHeader
    \/ HandlerTrace
    \/ HandlerLoop
    \/ HandlerFlush
    \/ HandlerWait
    \/ HandlerCollect
    \/ HandlerFinalFlush
    \/ \E c \in AllChains : TaskStart(c)
    \/ \E c \in AllChains : TaskResume(c)
    \/ \E c \in AllChains : WhisperReturns(c)
    \/ \E c \in AllChains : ResearchStep(c)
    \/ \E c \in AllChains : SummarizeStep(c)

Spec == Init /\ [][Next]_vars

\* one task of on_run, or the single chain of the other entry points
TaskNext(c) ==
    \/ TaskStart(c)
    \/ TaskResume(c)
    \/ WhisperReturns(c)
    \/ ResearchStep(c)
    \/ SummarizeStep(c)

\* the on_run generator, which Gradio iterates until it is exhausted
HandlerNext ==
    \/ HandlerStart
    \/ HandlerMethod
    \/ HandlerPipelines
    \/ HandlerLaunch
    \/ HandlerTraceHeader
    \/ HandlerTrace
    \/ HandlerLoop
    \/ HandlerFlush
    \/ HandlerWait
    \/ HandlerCollect
    \/ HandlerFinalFlush

\* The event loop runs every task that is ready, and every awaited host call
\* returns or raises in the end: no task and no generator step that stays
\* enabled is put off for ever.
SpecLive ==
    /\ Init
    /\ [][Next]_vars
    /\ WF_vars(HandlerNext)
    /\ \A c \in AllChains : WF_vars(TaskNext(c))

----------------------------------------------------------------------------
(* Properties of the pipeline *)

\* the task holds a semaphore slot: it is between acquire and release
Inside(c) == pc[c] \in {"granted", "transcribing", "researching", "summarizing"}

InsideChain == {c \in Chains : Inside(c)}

HasMsg(kind, fname) ==
    \E i \in 1..Len(status_messages) : status_messages[i] = Msg(kind, fname)

HasResultLine(kind, fname) ==
    \E i \in 1..Len(log) : log[i].kind = kind /\ log[i].fname = fname

ResultLines == {i \in 1..Len(log) : log[i].kind \in {"Complete", "Failed"}}

\* C1: in on_run at most 2 selected files are inside the chain (between
\* acquiring and releasing the semaphore) at any moment, whatever the number
\* of selected files and the interleaving of the tasks.
C1_AtMostTwoInChain ==
    entry = "on_run" => Cardinality(InsideChain) <= 2

\* C1 witness: two tasks hold the slots while a third one waits for one.
C1_Witness ==
    /\ entry = "on_run"
    /\ Cardinality(InsideChain) = 2
    /\ \E c \in Chains : pc[c] = "waiting"

\* C2: in on_run an exception raised by a stage of one file is caught in
\* that file's task: the task records an error status line and returns no
\* markdown, the handler never takes its 'Error occurred' path, and when it
\* ends every selected file has its own result line, 'Failed' for the file
\* whose stage raised.
C2_ExceptionStaysInTask ==
    entry = "on_run" =>
        /\ \A i \in 1..Len(log) : log[i].kind # "error_occurred"
        /\ \A c \in Chains :
              raised[c] # "none" =>
                  /\ pc[c] = "done"
                  /\ ret[c] = [state |-> "returned", md |-> None]
                  /\ HasMsg("error", Fname(c))
        /\ (hpc = "end" /\ selected # <<>>) =>
              /\ completed = Len(selected)
              /\ Cardinality(ResultLines) = Len(selected)
              /\ \A c \in Chains :
                    /\ ret[c].state = "returned"
                    /\ raised[c] # "none" => HasResultLine("Failed", Fname(c))

\* C2 witness: on_run has ended; the transcription of one file raised and
\* another file ran its chain without any exception.
C2_Witness ==
    /\ entry = "on_run"
    /\ hpc = "end"
    /\ \E c, d \in Chains :
          /\ raised[c] = "transcribe"
          /\ raised[d] = "none"
          /\ ret[d].state = "returned"

\* C3: in on_run a file whose transcription returned an SRT path and whose
\* research and summarization backends did not fail runs the whole chain:
\* 'Research completed' and 'Summarization completed' are recorded for it
\* and its task returns its markdown path.
C3_ChainCompletes ==
    entry = "on_run" =>
        \A c \in Chains :
            (/\ pc[c] = "done"
             /\ srts[c] # <<>>
             /\ raised[c] \notin {"transcribe", "research", "summarize"})
            => /\ ret[c].state = "returned"
               /\ ret[c].md # None
               /\ HasMsg("research_completed", Fname(c))
               /\ HasMsg("summarization_completed", Fname(c))

\* C4: per file the pipeline is a linear chain: research_host is called
\* for a file only when whisper_host has returned an SRT for it,
\* summarize_host only when research_host has returned for it, no host is
\* called twice for a file in one run, and a file without SRT gets neither
\* research nor summarization.
C4_LinearChain ==
    \A c \in Chains : \A f \in Files :
        IF f \in Range(ChainFiles(c))
        THEN /\ \A st \in Stages : calls[st][f] <= 1
             /\ calls["research"][f] > 0 =>
                   /\ calls["transcribe"][f] > 0
                   /\ f \in Range(srts[c])
             /\ calls["summarize"][f] > 0 =>
                   /\ calls["research"][f] > 0
                   /\ f \in Range(research_res[c])
             /\ (pc[c] \in {"researching", "summarizing", "done"}
                 /\ f \notin Range(srts[c])) =>
                   /\ calls["research"][f] = 0
                   /\ calls["summarize"][f] = 0
        ELSE f \notin Range(selected) => \A st \in Stages : calls[st][f] = 0

\* C4 witness: a chain has ended in which one file went through all three
\* hosts and another file, left without SRT, was neither researched nor
\* summarized.
C4_Witness ==
    \E c \in Chains : \E f, g \in Range(ChainFiles(c)) :
        /\ pc[c] = "done"
        /\ ret[c].state = "returned"
        /\ calls["summarize"][f] = 1
        /\ f \in Range(research_res[c])
        /\ g \notin Range(srts[c])
        /\ calls["transcribe"][g] = 1

\* C5: in on_run the free slots and the tasks inside the chain always add
\* up to 2: a slot is taken before transcription starts and given back on
\* every way out of the chain.
C5_SlotsConserved ==
    entry = "on_run" =>
        /\ sem >= 0
        /\ sem + Cardinality(InsideChain) = 2
        /\ \A c \in Chains : pc[c] \in {"none", "created", "waiting", "done"}
                               \/ Inside(c)

\* C5 witness: three tasks have left the chain, one by an exception of the
\* transcription, one with no SRT, one by an exception after transcription,
\* and both slots are free again.
C5_Witness ==
    /\ entry = "on_run"
    /\ sem = 2
    /\ \E c, d, e \in Chains :
          /\ pc[c] = "done" /\ raised[c] = "transcribe"
          /\ pc[d] = "done" /\ raised[d] = "none" /\ srts[d] = <<>>
          /\ pc[e] = "done" /\ raised[e] = "call"

----------------------------------------------------------------------------
(* Properties of batch_transcribe_media *)

BatchDir == DefaultedDir(batch_args.output_dir)

\* the media file whose turn it is
Turn == media_files[idx]

\* <output_dir>/<stem>.<format> exists, or for format srt <output_dir>/<stem>.txt
ExpectedOutputExists(f) ==
    \/ OutPath(BatchDir, Stem(f), batch_args.output_format) \in outFiles
    \/ /\ batch_args.output_format = "srt"
       /\ OutPath(BatchDir, Stem(f), "txt") \in outFiles

EntriesOf(res, status) ==
    {i \in 1..Len(res.results) : res.results[i].status = status}

MediaFound == {i \in 1..Len(media_files) : IsMedia(media_files[i])}

\* C6: with skip_existing=True, the turn of a media file whose expected
\* output exists sends nothing to the transcription server, adds one to
\* skipped, appends a "skipped"/"output_exists" entry for the file and leaves
\* processed and failed alone.
C6_SkipExisting ==
    [][(/\ bpc = "loop"
        /\ batch_args.skip_existing
        /\ IsMedia(Turn)
        /\ ExpectedOutputExists(Turn))
       => (/\ posted' = posted
           /\ outFiles' = outFiles
           /\ results'.skipped = results.skipped + 1
           /\ results'.processed = results.processed
           /\ results'.failed = results.failed
           /\ results'.results = Append(results.results,
                  [file |-> Turn, status |-> "skipped",
                   reason |-> "output_exists"]))]_vars

\* C6 witness: in a first run for format srt a file was skipped because only
\* the TXT file of its stem was there, and the server was not asked
C6_Witness ==
    /\ run = 1
    /\ batch_args.skip_existing
    /\ batch_args.output_format = "srt"
    /\ \E i \in EntriesOf(results, "skipped") :
          LET f == results.results[i].file
          IN  /\ results.results[i].reason = "output_exists"
              /\ IsMedia(f)
              /\ OutPath(BatchDir, Stem(f), "srt") \notin outFiles
              /\ OutPath(BatchDir, Stem(f), "txt") \in outFiles
              /\ posted[f] = 0

\* the first run processed every media file successfully
FirstRunAllProcessed ==
    /\ MediaFound # {}
    /\ first_results.processed = Cardinality(MediaFound)
    /\ first_results.failed = 0

\* C7: when the first run processed every media file successfully, the
\* second run with the same arguments and skip_existing=True returns
\* processed = 0 and failed = 0, reports every media file skipped and sends
\* nothing to the server.
C7_Idempotent ==
    (/\ run = 2
     /\ bpc = "returned"
     /\ batch_args.skip_existing
     /\ FirstRunAllProcessed)
    => /\ results.processed = 0
       /\ results.failed = 0
       /\ \A i \in MediaFound :
             \E j \in EntriesOf(results, "skipped") :
                results.results[j].file = media_files[i]
       /\ \A f \in Files : posted[f] = 0

----------------------------------------------------------------------------
(* Properties of the downloader registry *)

\* some pattern of platform p matches s
PlatformMatches(p, s) ==
    \E k \in DOMAIN PLATFORM_PATTERNS :
        /\ PLATFORM_PATTERNS[k].platform = p
        /\ AnySearch(PLATFORM_PATTERNS[k].patterns, s)

\* the platform the claim names for a string
FirstInOrder(u) ==
    IF u = <<>> THEN NoPlatform
    ELSE IF PlatformMatches("BILIBILI", Strip(u)) THEN "BILIBILI"
    ELSE IF PlatformMatches("YOUTUBE", Strip(u)) THEN "YOUTUBE"
    ELSE IF PlatformMatches("LOCAL", Strip(u)) THEN "LOCAL"
    ELSE NoPlatform

\* C8: detect_platform(url) is None for the empty string and otherwise the
\* first of Bilibili, YouTube, Local with a pattern matching the stripped
\* string, None when there is none; a repeated call on the same string
\* returns what the call before it returned.
C8_DetectPlatform ==
    detected # "unset" =>
        /\ detected = FirstInOrder(url)
        /\ prev_detected # "unset" => prev_detected = detected

\* C8 witness: a string with surrounding whitespace that matches patterns of
\* Bilibili and of Local once stripped was detected twice as Bilibili
C8_Witness ==
    /\ Strip(url) # url
    /\ PlatformMatches("LOCAL", Strip(url))
    /\ PlatformMatches("BILIBILI", Strip(url))
    /\ detected = "BILIBILI"
    /\ prev_detected = "BILIBILI"

\* C9: get_downloader(url) raises PlatformNotSupportedError only if no
\* registered downloader supports the url; otherwise it returns a registered
\* downloader that supports the url.
C9_RaisesOnlyIfUnsupported ==
    got # "unset" =>
        IF got = "PlatformNotSupportedError"
        THEN \A p \in downloaders : ~supports(p, url, is_file)
        ELSE got \in downloaders /\ supports(got, url, is_file)

\* one URL of each platform the package and the UI name as supported
DocumentedUrl(p) ==
    CASE p = "BILIBILI" -> 
            <<"h", "t", "t", "p", "s", ":", "/", "/", "w", "w", "w", ".", "b", "i", "l", "i", "b", "i", "l", "i", ".", "c", "o", "m", "/", "v", "i", "d", "e", "o", "/", "B", "V", "1">>
      [] p = "YOUTUBE"  -> 
            <<"h", "t", "t", "p", "s", ":", "/", "/", "w", "w", "w", ".", "y", "o", "u", "t", "u", "b", "e", ".", "c", "o", "m", "/", "w", "a", "t", "c", "h", "?", "v", "=", "x">>
      [] p = "DOUYIN"   -> 
            <<"h", "t", "t", "p", "s", ":", "/", "/", "w", "w", "w", ".", "d", "o", "u", "y", "i", "n", ".", "c", "o", "m", "/", "v", "i", "d", "e", "o", "/", "1">>
      [] p = "TIKTOK"   -> 
            <<"h", "t", "t", "p", "s", ":", "/", "/", "w", "w", "w", ".", "t", "i", "k", "t", "o", "k", ".", "c", "o", "m", "/", "@", "u", "/", "v", "i", "d", "e", "o", "/", "1">>
      [] p = "LOCAL"    -> 
            <<"/", "a", ".", "m", "p", "4">>

\* C10: for a URL of each of Bilibili, YouTube, Douyin, TikTok and local
\* files, detect_platform returns a platform and get_downloader returns a
\* downloader.
C10_DocumentedPlatformsServed ==
    \A p \in Platforms :
        url = DocumentedUrl(p) =>
            /\ detected # "unset" => detected # NoPlatform
            /\ got # "unset" => got # "PlatformNotSupportedError"

----------------------------------------------------------------------------
(* Properties of the downloaders and of download_video_task *)

\* C11: the download call of download_video_task is accepted by every
\* registered downloader, and a Bilibili or YouTube url whose backend
\* download succeeds makes download_video_task return a video path with the
\* status 'Ready to process'.
C11_Interchangeable ==
    /\ \A d \in downloaders :
          CallAccepted(DownloadKwargs("download_video_task"), download_params(d))
    /\ (/\ caller = "download_video_task"
        /\ task_pc = "returned"
        /\ Strip(topic_name) # <<>>
        /\ detect_platform(Strip(url)) \in {"BILIBILI", "YOUTUBE"}
        /\ backend = "ok")
       => /\ task_ret.video_path # NoPath
          /\ task_ret.status = "ready"

\* C12: a DownloadResult is built only for a file that exists, an empty
\* title becomes the video id, an assignment to a field of a built
\* DownloadResult changes nothing, and the DownloadResult a download()
\* returns names a file that exists when download() returns.
C12_DownloadResult ==
    [][/\ (probe.obj.state = "none" /\ probe'.obj.state = "ok")
              => /\ probe'.obj.file_path \in temp_files
                 /\ probe'.obj.title \in {"T", probe'.obj.video_id}
       /\ probe.obj.state = "ok" => probe'.obj = probe.obj
       /\ (task_pc = "downloading" /\ dl_result'.state = "ok")
              => /\ dl_result'.file_path \in temp_files'
                 /\ dl_result'.title \in {"T", dl_result'.video_id}]_vars

\* C12 witness: a download returned a result whose empty title became the
\* video id, and an assignment to a field of a DownloadResult was refused
C12_Witness ==
    /\ dl_result.state = "ok"
    /\ dl_result.title = dl_result.video_id
    /\ dl_result.file_path \in temp_files
    /\ probe.obj.state = "ok"
    /\ probe.setattr = "FrozenInstanceError"

----------------------------------------------------------------------------
(* Properties of summarize_host *)

\* the folder the claim names for an SRT
ExpectedDir(srt) ==
    IF srt.parent # <<>> /\ srt.parent[Len(srt.parent)] = srt.stem
    THEN srt.parent
    ELSE <<"output", srt.stem>>

\* C13: unless an agent run raises, summarize_host returns, and what it
\* returns is one markdown path per input SRT, in input order, each
\* <dir>/<stem>.md with <dir> the SRT's own folder when that folder is named
\* <stem> and output/<stem> otherwise, with or without a media file there.
C13_OnePathPerSrt ==
    /\ sum_state \in {"idle", "running", "returned", "agent_error"}
    /\ sum_state = "returned" =>
          /\ Len(output_paths) = Len(sum_srts)
          /\ \A i \in 1..Len(sum_srts) :
                output_paths[i] = MdPath(ExpectedDir(sum_srts[i]), sum_srts[i].stem)

----------------------------------------------------------------------------
(* Properties of on_run for files that share a stem *)

\* two tasks of on_run whose files have the same stem
SameStem(c, d) == c # d /\ Fname(c) = Fname(d)

\* both tasks are inside the chain at the same time
BothInside ==
    /\ entry = "on_run"
    /\ \E c, d \in Chains : SameStem(c, d) /\ Inside(c) /\ Inside(d)

\* C14: when two files of the same stem have both run through on_run with a
\* transcript and no failing backend, both summarizations have written
\* output/<stem>/<stem>.md and the file holds the content of one of the two,
\* the one that finished last.
C14_LastWriterWins ==
    entry = "on_run" =>
        \A c, d \in Chains :
            (/\ SameStem(c, d)
             /\ pc[c] = "done" /\ pc[d] = "done"
             /\ srts[c] # <<>> /\ srts[d] # <<>>
             /\ raised[c] \notin {"transcribe", "research", "summarize"}
             /\ raised[d] \notin {"transcribe", "research", "summarize"})
            => /\ calls["summarize"][selected[c]] = 1
               /\ calls["summarize"][selected[d]] = 1
               /\ mdFiles[Fname(c)] \in {selected[c], selected[d]}

----------------------------------------------------------------------------
(* utils/transcript_converter.py: properties *)

\* s.split(sep)
RECURSIVE Split(_, _)
Split(s, sep) ==
    IF \A i \in 1..Len(s) : s[i] # sep THEN <<s>>
    ELSE LET k == CHOOSE i \in 1..Len(s) :
                     s[i] = sep /\ \A j \in 1..(i - 1) : s[j] # sep
         IN  <<SubSeq(s, 1, k - 1)>> \o Split(SubSeq(s, k + 1, Len(s)), sep)

IsDigit(c) == c \in {"0", "1", "2", "3", "4", "5", "6", "7", "8", "9"}

DigitValue(c) == CHOOSE d \in 0..9 : Digit(d) = c

RECURSIVE ParseInt(_)
ParseInt(s) == IF s = <<>> THEN 0
               ELSE 10 * ParseInt(SubSeq(s, 1, Len(s) - 1)) + DigitValue(s[Len(s)])

\* HH:MM:SS<sep>mmm
IsStamp(s, sep) ==
    /\ Len(s) = 12
    /\ s[3] = ":" /\ s[6] = ":" /\ s[9] = sep
    /\ \A i \in {1, 2, 4, 5, 7, 8, 10, 11, 12} : IsDigit(s[i])

IsStampLine(s) ==
    /\ Len(s) = 29
    /\ IsStamp(SubSeq(s, 1, 12), ",")
    /\ SubSeq(s, 13, 17) = Arrow
    /\ IsStamp(SubSeq(s, 18, 29), ",")

\* C15: for a transcript with n segments transcript_to_srt emits exactly n
\* blocks in segment order; block i is the line i, a line
\* 'HH:MM:SS,mmm --> HH:MM:SS,mmm', the segment's text and an empty line,
\* so the indices are 1..n with no gap or repeat.
C15_SrtBlocks ==
    (conv_fn = "transcript_to_srt" /\ conv_out.state = "returned") =>
        LET n == Len(transcript.segments)
            lines == Split(conv_out.value, NL)
        IN  IF n = 0 THEN conv_out.value = <<>>
            ELSE /\ Len(lines) = 4 * n
                 /\ \A i \in 1..n :
                       /\ lines[4 * i - 3] # <<>>
                       /\ \A j \in 1..Len(lines[4 * i - 3]) :
                             IsDigit(lines[4 * i - 3][j])
                       /\ ParseInt(lines[4 * i - 3]) = i
                       /\ IsStampLine(lines[4 * i - 2])
                       /\ lines[4 * i - 1] = transcript.segments[i].text
                       /\ lines[4 * i] = <<>>

C15_Witness ==
    /\ conv_fn = "transcript_to_srt"
    /\ conv_out.state = "returned"
    /\ Len(transcript.segments) = MaxSegments
    /\ transcript.segments[1].text # <<>>

\* the timestamp the four fields of a whole number M of milliseconds give
FieldsStamp(M, sep) ==
    ZeroPad(Str(M \div 3600000), 2) \o <<":">>
      \o ZeroPad(Str((M \div 60000) % 60), 2) \o <<":">>
      \o ZeroPad(Str((M \div 1000) % 60), 2) \o <<sep>>
      \o ZeroPad(Str(M % 1000), 3)

\* C16: for a time of M whole milliseconds format_timestamp_srt returns
\* hours = M div 3600000, minutes = (M div 60000) mod 60, seconds =
\* (M div 1000) mod 60 and millis = M mod 1000, zero-padded as HH:MM:SS,mmm,
\* and format_timestamp_vtt the same fields with '.' for ','.
C16_TimestampFields ==
    ts_out.state = "returned" =>
        /\ ts_out.srt = FieldsStamp(ts_in, ",")
        /\ ts_out.vtt = FieldsStamp(ts_in, ".")

\* the part of C16 that does hold: hours, minutes and seconds are the
\* claimed fields, and the milliseconds are never more than one short
TimestampWithinOne ==
    ts_out.state = "returned" =>
        /\ SubSeq(ts_out.srt, 1, 9) = SubSeq(FieldsStamp(ts_in, ","), 1, 9)
        /\ ParseInt(SubSeq(ts_out.srt, 10, Len(ts_out.srt)))
              \in {ts_in % 1000, (ts_in % 1000) - 1}

----------------------------------------------------------------------------
(* utils/dependency_checker.py: properties *)

RequiredCommands ==
    (IF dep_args.require_ffmpeg THEN <<"ffmpeg">> ELSE <<>>)
       \o (IF dep_args.require_node THEN <<"node">> ELSE <<>>)

\* C18: when check_all_dependencies returns, all_ok is true exactly when
\* the version probe of every required dependency succeeded, there is one
\* message per required dependency, ffmpeg's first, and only the required
\* dependencies were probed; validate_or_exit then exits with status 1 when
\* all_ok is false and exit_on_failure is true, raises RuntimeError when
\* all_ok is false and exit_on_failure is false, and returns when all_ok.
C18_DependencyCheck ==
    (dep_pc = "end" /\ dep_end \in {"returned", "exit(1)", "RuntimeError"}) =>
        /\ all_ok <=> \A i \in 1..Len(RequiredCommands) :
                         dep_env[RequiredCommands[i]] = "ok"
        /\ probed = RequiredCommands
        /\ Len(messages) = Len(RequiredCommands)
        /\ \A i \in 1..Len(messages) :
              /\ messages[i].dep = RequiredCommands[i]
              /\ messages[i].ok <=> dep_env[RequiredCommands[i]] = "ok"
        /\ dep_args.caller = "validate_or_exit" =>
              /\ (~all_ok /\ dep_args.exit_on_failure) <=> dep_end = "exit(1)"
              /\ (~all_ok /\ ~dep_args.exit_on_failure) <=> dep_end = "RuntimeError"
              /\ all_ok <=> dep_end = "returned"

C18_Witness ==
    /\ dep_pc = "end"
    /\ dep_args.caller = "validate_or_exit"
    /\ dep_args.require_ffmpeg /\ dep_args.require_node
    /\ dep_args.exit_on_failure
    /\ dep_env["ffmpeg"] = "ok" /\ dep_env["node"] = "FileNotFoundError"
    /\ dep_end = "exit(1)"

\* a probe that is not required is never run, whatever it would do
UnrequiredNeverProbed ==
    \A i \in 1..Len(probed) : Required(probed[i])

----------------------------------------------------------------------------
(* on_run: termination *)

\* the 'Complete' and 'Failed' lines of the log, in the order shown
ResultSeq == SelectSeq(log, LAMBDA l : l.kind \in {"Complete", "Failed"})

MarkdownProduced == \E s \in Stems : mdFiles[s] # None

\* on_run has ended after one result line per selected file, numbered
\* 1..N in this order, and the final line that fits what was produced
OnRunEnded ==
    /\ hpc = "end"
    /\ Len(ResultSeq) = Len(selected)
    /\ \A k \in 1..Len(ResultSeq) : ResultSeq[k].k = k
    /\ \A s \in Stems :
          Cardinality({k \in 1..Len(ResultSeq) : ResultSeq[k].fname = s})
             = Cardinality({c \in Chains : Fname(c) = s})
    /\ selected # <<>> =>
          log[Len(log)] = IF MarkdownProduced THEN Line("all_completed")
                          ELSE Line("no_markdown")

----------------------------------------------------------------------------
(* whisper_host: properties *)

\* the files that reach the loop, in the order the loop takes them
WhSorted == Sorted(SelectSeq(wh_files, LAMBDA f : wh_oc[f].kind # "invalid"))

\* the stems whose SRT is in place once the agent run of WhSorted[i] is over
WhSrtAfter(i) ==
    wh_before \cup {Stem(WhSorted[j]) : j \in {k \in 1..i : wh_oc[WhSorted[k]].wrote}}

\* the files of WhSorted whose expected SRT exists after their agent run
WhExpected ==
    LET keep == {i \in 1..Len(WhSorted) : Stem(WhSorted[i]) \in WhSrtAfter(i)}
        F[i \in 0..Len(WhSorted)] ==
            IF i = 0 THEN <<>>
            ELSE IF i \in keep THEN Append(F[i - 1], WhSorted[i]) ELSE F[i - 1]
    IN  F[Len(WhSorted)]

\* C20: once whisper_host has reached its loop it handles the files in
\* sorted order and returns, in that order, exactly the expected SRT paths
\* that exist after each file's agent run, whether the agent runs returned,
\* raised the benign 'Invalid structured content for tool move_file' error
\* or raised anything else.
C20_WhisperHost ==
    (wh_result.state # "none" /\ ~wh_startup) =>
        /\ wh_result.state = "returned"
        /\ wh_result.srts = WhExpected

\* the part of C20 that holds: when no agent run raises the benign error,
\* the expected SRTs are returned in sorted order and a raising agent run
\* does not stop the files after it
WhisperHostWithoutBenign ==
    (/\ wh_result.state # "none"
     /\ ~wh_startup
     /\ \A f \in Range(wh_files) : wh_oc[f].kind # "benign")
    => /\ wh_result.state = "returned"
       /\ wh_result.srts = WhExpected

----------------------------------------------------------------------------
(* download_video_task: properties *)

TaskReturned == caller \in TaskCallers /\ task_pc = "returned"

\* the name under which the call files its download
SafeName == SafeTopic(Strip(topic_name))

\* C21: download_video_task returns and never raises: an empty url, an
\* empty topic name, an unsupported platform or a failure of the downloader
\* give (None, error message); on success the downloaded file is at
\* input/<safe_topic><ext> and the metadata at
\* output/<safe_topic>/<safe_topic>.json, where safe_topic has none of the
\* characters <>:"/\|?* and at most 100 characters.
C21_DownloadTask ==
    TaskReturned =>
        /\ task_ret.state = "returned"
        /\ (\/ Strip(url) = <<>>
            \/ Strip(topic_name) = <<>>
            \/ detect_platform(Strip(url)) = NoPlatform
            \/ dl_result.state = "raised")
           => /\ task_ret.video_path = NoPath
              /\ task_ret.status \notin {"ready", "none"}
        /\ task_ret.video_path # NoPath =>
              /\ task_ret.status = "ready"
              /\ \A i \in 1..Len(SafeName) : SafeName[i] \notin ForbiddenChars
              /\ Len(SafeName) <= 100
              /\ SafeName # <<>>
              /\ task_ret.video_path.dir = "input"
              /\ task_ret.video_path.stem = SafeName
              /\ [stem |-> SafeName, ext |-> task_ret.video_path.ext,
                  content |-> "new"] \in input_files
              /\ task_ret.video_path.ext =
                    (IF dl_result.file_path.ext = <<>> THEN s_mp4
                     ELSE dl_result.file_path.ext)
              /\ SafeName \in meta_files
              /\ temp_files = {}

\* C21 witness: a topic name longer than the limit and one with characters
\* that are replaced have both been filed
C21_Witness ==
    /\ TaskReturned
    /\ task_ret.status = "ready"
    /\ Len(Strip(topic_name)) > 100
    /\ caller = "app.download_video_task"
    /\ detect_platform(Strip(url)) = "YOUTUBE"

\* C22: whenever download_video_task returns (None, error message), the
\* call has added no file to input/ and replaced none.
C22_AllOrNothing ==
    [][(caller \in TaskCallers /\ task_pc' = "returned"
        /\ task_ret'.video_path = NoPath)
       => input_files' = input_files]_vars

----------------------------------------------------------------------------
(* on_url_download: properties *)

IsTerminal(item) == item.type \in {"DONE", "ERROR"}

TerminalsIn(q) == {i \in 1..Len(q) : IsTerminal(q[i])}

\* the items taken off the queue so far
Taken == SubSeq(enqueued, 1, Len(enqueued) - Len(log_queue))

\* the lines yielded after the 'Processing URL' line
Yielded == SubSeq(url_log, 2, Len(url_log))

QueueOrder ==
    /\ Cardinality(TerminalsIn(enqueued)) <= 1
    /\ \A i \in 1..Len(enqueued) :
          /\ IsTerminal(enqueued[i]) =>
                /\ \A j \in 1..(i - 1) : enqueued[j].type = "str"
                /\ i + 1 = Len(enqueued)
          /\ enqueued[i] = Sentinel =>
                /\ i = Len(enqueued)
                /\ i > 1 /\ IsTerminal(enqueued[i - 1])
    /\ url_task = "done" =>
          /\ Cardinality(TerminalsIn(enqueued)) = 1
          /\ enqueued[Len(enqueued)] = Sentinel
    /\ url_task # "none" =>
          /\ log_queue = SubSeq(enqueued, Len(enqueued) - Len(log_queue) + 1,
                                Len(enqueued))
          /\ Yielded = SelectSeq(Taken, LAMBDA item : item # Sentinel)
    /\ (url_pc \in {"await_task", "end"} /\ url_task # "none") =>
          /\ log_queue = <<>>
          /\ Cardinality(TerminalsIn(url_log)) = 1

\* C23: process_task puts every progress message before its one terminal
\* status (DONE or ERROR) and the sentinel last; the handler yields the
\* items in the order they were put, the terminal status once, stops at
\* the sentinel, and ends whenever the download task has ended.
C23_QueueProtocol ==
    /\ []QueueOrder
    /\ (url_task = "done") ~> (url_pc = "end")

C23_Witness ==
    /\ url_pc = "end"
    /\ url_task = "done"
    /\ Len(enqueued) = MaxProgress + 2
    /\ \E i \in 1..Len(url_log) : url_log[i].type = "ERROR"

----------------------------------------------------------------------------
(* batch_transcribe_media: the counters *)

Counted(res) == res.processed + res.skipped + res.failed

\* one turn of the loop adds one to exactly one of the three counters
CountsOne(old, new) ==
    \/ /\ new.processed = old.processed + 1
       /\ new.skipped = old.skipped
       /\ new.failed = old.failed
    \/ /\ new.processed = old.processed
       /\ new.skipped = old.skipped + 1
       /\ new.failed = old.failed
    \/ /\ new.processed = old.processed
       /\ new.skipped = old.skipped
       /\ new.failed = old.failed + 1

\* the turn that is being taken ends in the except clause
TurnFails ==
    /\ bpc = "loop"
    /\ Len(results'.results) = Len(results.results) + 1
    /\ results'.results[Len(results'.results)].status = "failed"

\* C24: when batch_transcribe_media returns, processed + skipped + failed
\* is the number of media files found, every turn of the loop having added
\* one to exactly one of the three; a turn whose transcription raises adds
\* one to failed and the loop goes on with the next file.
C24_Counts ==
    /\ [](bpc = "returned" => /\ Counted(results) = Len(media_files)
                              /\ (media_files # <<>> => idx = Len(media_files) + 1))
    /\ [][bpc = "loop" => /\ CountsOne(results, results')
                          /\ idx' = idx + 1]_vars
    /\ [][TurnFails => /\ results'.failed = results.failed + 1
                       /\ results'.results[Len(results'.results)].file = Turn
                       /\ bpc' = IF idx < Len(media_files)
                                 THEN "loop" ELSE "returned"]_vars

\* C24 witness: a run of three files has returned in which a file failed,
\* a later one was processed and a file that is no media file was skipped
C24_Witness ==
    /\ bpc = "returned"
    /\ Len(media_files) = 3
    /\ results.skipped > Cardinality(EntriesOf(results, "skipped"))
    /\ \E i \in EntriesOf(results, "failed"), j \in EntriesOf(results, "success") :
          i < j

----------------------------------------------------------------------------
(* on_run: the log and the status messages *)

IsPrefix(s, t) == Len(s) <= Len(t) /\ SubSeq(t, 1, Len(s)) = s

\* the lines of the log that were recorded through log_status
StatusShown ==
    SelectSeq(log, LAMBDA l : l.k = 0 /\ l.fname # None /\ l.kind # "trace")

\* on_run has yielded its final line
FinalLineShown ==
    /\ hpc = "end"
    /\ log[Len(log)] \in {Line("all_completed"), Line("no_markdown")}

\* C25: in on_run every yielded log has the log yielded before as a prefix,
\* and the messages the tasks recorded through log_status are in the log
\* once each, in the order they were recorded.
C25_StatusLog ==
    /\ [][entry = "on_run" => IsPrefix(log, log')]_vars
    /\ []((entry = "on_run" /\ FinalLineShown) => StatusShown = status_messages)

============================================================================
